---- MODULE Spec2Model ----
(***************************************************************************)
(* Promotor: request routing (classifier, division router, tier selector)  *)
(* and the orchestration graph that walks the division supervisors and     *)
(* aggregates their results.                                               *)
(*                                                                         *)
(* Text is a sequence of tokens.  A query is spelled character by          *)
(* character: one token per code point, an ASCII character as itself and   *)
(* any other code point as "uXXXX".  Fixed literals of the program that    *)
(* are never searched are kept as one token.                               *)
(***************************************************************************)
EXTENDS Integers, Sequences, FiniteSets, TLC

\* ------------------------------------------------------------------ bounds
\* longest message list handed to the graph
MaxMessages == 2
\* number of brand identifiers a request may carry
NumBrands == 2
\* number of per-process string-hash seeds
NumHashSeeds == 2
\* node executions explored when division nodes run in an arbitrary sequence
MaxFreeSteps == 4
\* websockets that connect to the endpoint
MaxConnections == 3
\* client identifiers the websockets connect under
NumClients == 2

\* ------------------------------------------------------- optional values
None == [is_none |-> TRUE]

Some(v) == [is_none |-> FALSE, value |-> v]

\* Python truthiness of an optional text: None and "" are falsy
Truthy(o) == (~o.is_none) /\ (o.value # <<>>)

Range(s) == {s[i] : i \in 1..Len(s)}

NoDuplicates(s) == \A i, j \in 1..Len(s) : (i # j) => (s[i] # s[j])

\* ------------------------------------------------------------ state.py
\* class Division, in declaration order
Division ==
  <<"strategic_planning", "market_intelligence", "channel_management",
    "analytics", "operations">>

DivisionSet == Range(Division)

NumDivisions == Len(Division)

\* the spelling of each Division value
DivisionValue ==
  [
    strategic_planning |-> <<"s","t","r","a","t","e","g","i","c","_","p","l","a","n","n","i","n","g">>,
    market_intelligence |-> <<"m","a","r","k","e","t","_","i","n","t","e","l","l","i","g","e","n","c","e">>,
    channel_management |-> <<"c","h","a","n","n","e","l","_","m","a","n","a","g","e","m","e","n","t">>,
    analytics |-> <<"a","n","a","l","y","t","i","c","s">>,
    operations |-> <<"o","p","e","r","a","t","i","o","n","s">>
  ]

\* class TaskType
TaskType ==
  {"promotion_planning", "timeline_management", "budget_allocation",
   "news_scouting", "competitor_analysis", "ingredient_trends",
   "seasonal_analysis", "channel_status", "price_sync", "inventory_check",
   "cross_channel", "sentiment_analysis", "promotion_review",
   "bundle_analysis", "margin_calculation", "stockout_prediction",
   "influencer_roi", "attribution", "inventory_monitoring",
   "price_monitoring", "checklist_validation", "general_query",
   "multi_division"}

\* ------------------------------------------------------------ str methods
UpperLetters ==
  <<"A","B","C","D","E","F","G","H","I","J","K","L","M",
    "N","O","P","Q","R","S","T","U","V","W","X","Y","Z">>

LowerLetters ==
  <<"a","b","c","d","e","f","g","h","i","j","k","l","m",
    "n","o","p","q","r","s","t","u","v","w","x","y","z">>

IndexOf(c, letters) == CHOOSE i \in 1..Len(letters) : letters[i] = c

LowerChar(c) ==
  IF c \in Range(UpperLetters) THEN LowerLetters[IndexOf(c, UpperLetters)] ELSE c

UpperChar(c) ==
  IF c \in Range(LowerLetters) THEN UpperLetters[IndexOf(c, LowerLetters)] ELSE c

IsCased(c) == c \in (Range(UpperLetters) \cup Range(LowerLetters))

\* str.lower()
str_lower(s) == [i \in 1..Len(s) |-> LowerChar(s[i])]

\* str.replace(old, new) for single characters
str_replace(s, old, new) == [i \in 1..Len(s) |-> IF s[i] = old THEN new ELSE s[i]]

\* str.title(): a cased character is upper-cased after an uncased one (or at
\* the start) and lower-cased after a cased one
str_title(s) ==
  [i \in 1..Len(s) |->
     IF i = 1 \/ ~IsCased(s[i-1]) THEN UpperChar(s[i]) ELSE LowerChar(s[i])]

\* a keyword found only at the start of the text
str_contains_AtStart(kw, s) ==
  Len(kw) <= Len(s) /\ SubSeq(s, 1, Len(kw)) = kw

\* kw in s  (substring test)
str_contains(kw, s) ==
  \E i \in 1..(Len(s) - Len(kw) + 1) : SubSeq(s, i, i + Len(kw) - 1) = kw

\* ------------------------------------------------------------ routing.py
TASK_KEYWORDS ==
  <<
    [task |-> "promotion_planning", keywords |-> <<
        <<"p","l","a","n">>,
        <<"p","l","a","n","n","i","n","g">>,
        <<"c","a","l","e","n","d","a","r">>,
        <<"s","c","h","e","d","u","l","e">>,
        <<"c","a","m","p","a","i","g","n">>,
        <<"q","1">>,
        <<"q","2">>,
        <<"q","3">>,
        <<"q","4">>,
        <<"q","u","a","r","t","e","r","l","y">>,
        <<"m","o","n","t","h","l","y">>,
        <<"w","e","e","k","l","y">>,
        <<"a","n","n","u","a","l">>,
        <<"uD504","uB85C","uBAA8","uC158">>,
        <<"uACC4","uD68D">>,
        <<"uCEA0","uD398","uC778">>
    >>],
    [task |-> "timeline_management", keywords |-> <<
        <<"t","i","m","e","l","i","n","e">>,
        <<"d","e","a","d","l","i","n","e">>,
        <<"m","i","l","e","s","t","o","n","e">>,
        <<"d","u","e">>,
        <<"w","h","e","n">>,
        <<"r","e","m","i","n","d","e","r">>,
        <<"uC77C","uC815">>,
        <<"uB9C8","uAC10">>
    >>],
    [task |-> "budget_allocation", keywords |-> <<
        <<"b","u","d","g","e","t">>,
        <<"c","o","s","t">>,
        <<"s","p","e","n","d">>,
        <<"a","l","l","o","c","a","t","e">>,
        <<"r","o","i">>,
        <<"uC608","uC0B0">>,
        <<"uBE44","uC6A9">>,
        <<"uBC30","uBD84">>
    >>],
    [task |-> "news_scouting", keywords |-> <<
        <<"n","e","w","s">>,
        <<"t","r","e","n","d">>,
        <<"i","n","d","u","s","t","r","y">>,
        <<"uB274","uC2A4">>,
        <<"uD2B8","uB80C","uB4DC">>,
        <<"uC5C5","uACC4">>
    >>],
    [task |-> "competitor_analysis", keywords |-> <<
        <<"c","o","m","p","e","t","i","t","o","r">>,
        <<"c","o","m","p","e","t","i","t","i","o","n">>,
        <<"i","n","n","i","s","f","r","e","e">>,
        <<"l","a","n","e","i","g","e">>,
        <<"e","t","u","d","e">>,
        <<"uACBD","uC7C1","uC0AC">>,
        <<"uACBD","uC7C1">>
    >>],
    [task |-> "ingredient_trends", keywords |-> <<
        <<"i","n","g","r","e","d","i","e","n","t">>,
        <<"c","e","n","t","e","l","l","a">>,
        <<"r","e","t","i","n","o","l">>,
        <<"n","i","a","c","i","n","a","m","i","d","e">>,
        <<"v","i","t","a","m","i","n">>,
        <<"uC131","uBD84">>,
        <<"uB808","uD2F0","uB180">>
    >>],
    [task |-> "seasonal_analysis", keywords |-> <<
        <<"s","e","a","s","o","n","a","l">>,
        <<"s","e","a","s","o","n">>,
        <<"s","u","m","m","e","r">>,
        <<"w","i","n","t","e","r">>,
        <<"h","o","l","i","d","a","y">>,
        <<"uACC4","uC808">>,
        <<"uC5EC","uB984">>,
        <<"uACA8","uC6B8">>
    >>],
    [task |-> "channel_status", keywords |-> <<
        <<"o","l","i","v","e","y","o","u","n","g">>,
        <<"c","o","u","p","a","n","g">>,
        <<"n","a","v","e","r">>,
        <<"k","a","k","a","o">>,
        <<"c","h","a","n","n","e","l">>,
        <<"uC62C","uB9AC","uBE0C","uC601">>,
        <<"uCFE0","uD321">>,
        <<"uB124","uC774","uBC84">>
    >>],
    [task |-> "price_sync", keywords |-> <<
        <<"p","r","i","c","e"," ","s","y","n","c">>,
        <<"p","r","i","c","e"," ","c","o","n","s","i","s","t","e","n","c","y">>,
        <<"uAC00","uACA9"," ","uB3D9","uAE30","uD654">>,
        <<"uAC00","uACA9"," ","uC77C","uCE58">>
    >>],
    [task |-> "sentiment_analysis", keywords |-> <<
        <<"r","e","v","i","e","w">>,
        <<"s","e","n","t","i","m","e","n","t">>,
        <<"f","e","e","d","b","a","c","k">>,
        <<"c","u","s","t","o","m","e","r"," ","o","p","i","n","i","o","n">>,
        <<"uB9AC","uBDF0">>,
        <<"uD3C9","uC810">>,
        <<"uACE0","uAC1D"," ","uC758","uACAC">>
    >>],
    [task |-> "promotion_review", keywords |-> <<
        <<"p","e","r","f","o","r","m","a","n","c","e">>,
        <<"a","n","a","l","y","z","e"," ","p","r","o","m","o","t","i","o","n">>,
        <<"h","o","w"," ","d","i","d">>,
        <<"uACB0","uACFC">>,
        <<"uC131","uACFC">>,
        <<"uBD84","uC11D">>
    >>],
    [task |-> "bundle_analysis", keywords |-> <<
        <<"b","u","n","d","l","e">>,
        <<"c","r","o","s","s","-","s","e","l","l">>,
        <<"u","p","s","e","l","l">>,
        <<"uC138","uD2B8">>,
        <<"uBC88","uB4E4">>,
        <<"uAD50","uCC28","uD310","uB9E4">>
    >>],
    [task |-> "margin_calculation", keywords |-> <<
        <<"m","a","r","g","i","n">>,
        <<"p","r","o","f","i","t">>,
        <<"d","i","s","c","o","u","n","t"," ","l","e","v","e","l">>,
        <<"uB9C8","uC9C4">>,
        <<"uC218","uC775">>,
        <<"uD560","uC778","uC728">>
    >>],
    [task |-> "stockout_prediction", keywords |-> <<
        <<"s","t","o","c","k","o","u","t">>,
        <<"s","t","o","c","k"," ","o","u","t">>,
        <<"r","e","o","r","d","e","r">>,
        <<"i","n","v","e","n","t","o","r","y"," ","f","o","r","e","c","a","s","t">>,
        <<"uC7AC","uACE0"," ","uBD80","uC871">>,
        <<"uBC1C","uC8FC">>
    >>],
    [task |-> "influencer_roi", keywords |-> <<
        <<"i","n","f","l","u","e","n","c","e","r">>,
        <<"k","o","l">>,
        <<"c","r","e","a","t","o","r">>,
        <<"uC778","uD50C","uB8E8","uC5B8","uC11C">>,
        <<"uD06C","uB9AC","uC5D0","uC774","uD130">>
    >>],
    [task |-> "attribution", keywords |-> <<
        <<"a","t","t","r","i","b","u","t","i","o","n">>,
        <<"c","h","a","n","n","e","l"," ","c","o","n","t","r","i","b","u","t","i","o","n">>,
        <<"uAE30","uC5EC","uB3C4">>,
        <<"uCC44","uB110"," ","uAE30","uC5EC">>
    >>],
    [task |-> "inventory_monitoring", keywords |-> <<
        <<"i","n","v","e","n","t","o","r","y">>,
        <<"s","t","o","c","k"," ","l","e","v","e","l">>,
        <<"uC7AC","uACE0">>,
        <<"uC7AC","uACE0"," ","uD604","uD669">>
    >>],
    [task |-> "price_monitoring", keywords |-> <<
        <<"p","r","i","c","e"," ","m","o","n","i","t","o","r">>,
        <<"m","a","p"," ","v","i","o","l","a","t","i","o","n">>,
        <<"r","e","s","e","l","l","e","r">>,
        <<"uAC00","uACA9"," ","uBAA8","uB2C8","uD130","uB9C1">>,
        <<"uB9AC","uC140","uB7EC">>
    >>],
    [task |-> "checklist_validation", keywords |-> <<
        <<"c","h","e","c","k","l","i","s","t">>,
        <<"v","a","l","i","d","a","t","i","o","n">>,
        <<"p","r","e","-","l","a","u","n","c","h">>,
        <<"uCCB4","uD06C","uB9AC","uC2A4","uD2B8">>,
        <<"uAC80","uC99D">>
    >>]
  >>

TASK_TO_DIVISION ==
  <<
    [task |-> "promotion_planning", division |-> "strategic_planning"],
    [task |-> "timeline_management", division |-> "strategic_planning"],
    [task |-> "budget_allocation", division |-> "strategic_planning"],
    [task |-> "news_scouting", division |-> "market_intelligence"],
    [task |-> "competitor_analysis", division |-> "market_intelligence"],
    [task |-> "ingredient_trends", division |-> "market_intelligence"],
    [task |-> "seasonal_analysis", division |-> "market_intelligence"],
    [task |-> "channel_status", division |-> "channel_management"],
    [task |-> "price_sync", division |-> "channel_management"],
    [task |-> "inventory_check", division |-> "channel_management"],
    [task |-> "cross_channel", division |-> "channel_management"],
    [task |-> "sentiment_analysis", division |-> "analytics"],
    [task |-> "promotion_review", division |-> "analytics"],
    [task |-> "bundle_analysis", division |-> "analytics"],
    [task |-> "margin_calculation", division |-> "analytics"],
    [task |-> "stockout_prediction", division |-> "analytics"],
    [task |-> "influencer_roi", division |-> "analytics"],
    [task |-> "attribution", division |-> "analytics"],
    [task |-> "inventory_monitoring", division |-> "operations"],
    [task |-> "price_monitoring", division |-> "operations"],
    [task |-> "checklist_validation", division |-> "operations"]
  >>

MULTI_DIVISION_PATTERNS ==
  <<
    [alternatives |-> <<
        [head |-> <<"p","l","a","n">>, tail |-> <<"p","r","o","m","o","t","i","o","n">>],
        [head |-> <<"p","r","o","m","o","t","i","o","n">>, tail |-> <<"p","l","a","n">>],
        [head |-> <<"uCEA0","uD398","uC778">>, tail |-> <<"uACC4","uD68D">>],
        [head |-> <<"uACC4","uD68D">>, tail |-> <<"uCEA0","uD398","uC778">>]
     >>,
     divisions |-> <<"strategic_planning", "market_intelligence", "channel_management", "analytics">>],
    [alternatives |-> <<
        [head |-> <<"l","a","u","n","c","h">>, tail |-> <<"c","h","e","c","k">>],
        [head |-> <<"p","r","e">>, tail |-> <<"l","a","u","n","c","h">>],
        [head |-> <<"uB7F0","uCE6D">>, tail |-> <<"uCCB4","uD06C">>],
        [head |-> <<"uC0AC","uC804">>, tail |-> <<"uAC80","uD1A0">>]
     >>,
     divisions |-> <<"operations", "channel_management">>],
    [alternatives |-> <<
        [head |-> <<"a","n","a","l","y","z","e">>, tail |-> <<"c","h","a","n","n","e","l">>],
        [head |-> <<"c","h","a","n","n","e","l">>, tail |-> <<"p","e","r","f","o","r","m","a","n","c","e">>],
        [head |-> <<"uCC44","uB110">>, tail |-> <<"uBD84","uC11D">>],
        [head |-> <<"uC131","uACFC">>, tail |-> <<"uBD84","uC11D">>]
     >>,
     divisions |-> <<"channel_management", "analytics">>]
  >>

\* keywords compared with the whole query instead of searched in it
KeywordScore_ExactMatch(keywords, query_lower) ==
  Cardinality({j \in 1..Len(keywords) : str_lower(keywords[j]) = query_lower})

\* number of keywords of one list that occur in the lower-cased query
KeywordScore(keywords, query_lower) ==
  Cardinality({j \in 1..Len(keywords) :
                 str_contains(str_lower(keywords[j]), query_lower)})

\* ties resolved by the last declared category
classify_task_LastOfTied(query) ==
  LET query_lower == str_lower(query)
      score == [i \in 1..Len(TASK_KEYWORDS) |->
                  KeywordScore(TASK_KEYWORDS[i].keywords, query_lower)]
      scored == {i \in 1..Len(TASK_KEYWORDS) : score[i] > 0}
  IN  IF scored = {} THEN "general_query"
      ELSE LET best == CHOOSE i \in scored :
                          /\ \A j \in scored : score[j] <= score[i]
                          /\ \A j \in scored : (j > i) => (score[j] < score[i])
           IN  TASK_KEYWORDS[best].task

\* a single keyword hit left unclassified
classify_task_SingleHitIgnored(query) ==
  LET query_lower == str_lower(query)
      score == [i \in 1..Len(TASK_KEYWORDS) |->
                  KeywordScore(TASK_KEYWORDS[i].keywords, query_lower)]
      scored == {i \in 1..Len(TASK_KEYWORDS) : score[i] > 1}
  IN  IF scored = {} THEN "general_query"
      ELSE LET best == CHOOSE i \in scored :
                          /\ \A j \in scored : score[j] <= score[i]
                          /\ \A j \in scored : (j < i) => (score[j] < score[i])
           IN  TASK_KEYWORDS[best].task

classify_task(query) ==
  LET query_lower == str_lower(query)
      score == [i \in 1..Len(TASK_KEYWORDS) |->
                  KeywordScore(TASK_KEYWORDS[i].keywords, query_lower)]
      scored == {i \in 1..Len(TASK_KEYWORDS) : score[i] > 0}
  IN  IF scored = {} THEN "general_query"
      ELSE LET best == CHOOSE i \in scored :
                          /\ \A j \in scored : score[j] <= score[i]
                          /\ \A j \in scored : (j < i) => (score[j] < score[i])
           IN  TASK_KEYWORDS[best].task

\* the alternative with nothing allowed between head and tail
AlternativeMatches_Adjacent(alt, s) ==
  \E i \in 1..(Len(s) - Len(alt.head) - Len(alt.tail) + 1) :
    SubSeq(s, i, i + Len(alt.head) + Len(alt.tail) - 1) = alt.head \o alt.tail

\* re.search of one alternative  head.*tail : head, then any run of
\* characters other than a newline, then tail
AlternativeMatches(alt, s) ==
  \E i \in 1..(Len(s) - Len(alt.head) + 1) :
    /\ SubSeq(s, i, i + Len(alt.head) - 1) = alt.head
    /\ \E j \in (i + Len(alt.head))..(Len(s) - Len(alt.tail) + 1) :
         /\ SubSeq(s, j, j + Len(alt.tail) - 1) = alt.tail
         /\ \A k \in (i + Len(alt.head))..(j - 1) : s[k] # "\n"

re_search(pattern, s) ==
  \E a \in 1..Len(pattern.alternatives) :
    AlternativeMatches(pattern.alternatives[a], s)

\* a category without a table entry sent to the first division
TaskDivision_DefaultDivision(task) ==
  IF \E i \in 1..Len(TASK_TO_DIVISION) : TASK_TO_DIVISION[i].task = task
  THEN <<TASK_TO_DIVISION[CHOOSE i \in 1..Len(TASK_TO_DIVISION) :
                            TASK_TO_DIVISION[i].task = task].division>>
  ELSE <<Division[1]>>

\* [TASK_TO_DIVISION[task]] if task in TASK_TO_DIVISION, else []
TaskDivision(task) ==
  IF \E i \in 1..Len(TASK_TO_DIVISION) : TASK_TO_DIVISION[i].task = task
  THEN <<TASK_TO_DIVISION[CHOOSE i \in 1..Len(TASK_TO_DIVISION) :
                            TASK_TO_DIVISION[i].task = task].division>>
  ELSE <<>>

\* the last matching pattern taken instead of the first
determine_divisions_LastPattern(query, task) ==
  LET query_lower == str_lower(query)
      matching == {p \in 1..Len(MULTI_DIVISION_PATTERNS) :
                     re_search(MULTI_DIVISION_PATTERNS[p], query_lower)}
  IN  IF matching # {}
      THEN MULTI_DIVISION_PATTERNS[CHOOSE p \in matching :
                                     \A r \in matching : p >= r].divisions
      ELSE TaskDivision(task)

\* the category table consulted without testing the patterns
determine_divisions_TableOnly(query, task) ==
  TaskDivision(task)

determine_divisions(query, task) ==
  LET query_lower == str_lower(query)
      matching == {p \in 1..Len(MULTI_DIVISION_PATTERNS) :
                     re_search(MULTI_DIVISION_PATTERNS[p], query_lower)}
  IN  IF matching # {}
      THEN MULTI_DIVISION_PATTERNS[CHOOSE p \in matching :
                                     \A r \in matching : p <= r].divisions
      ELSE TaskDivision(task)

\* query-length threshold of the tier policy
ShortQueryLen == 50

\* a query of exactly the threshold length counted as short
determine_model_tier_AtMostThreshold(task, query) ==
  IF task \in {"inventory_monitoring", "channel_status"} THEN "tier1_free"
  ELSE IF task \in {"price_monitoring", "checklist_validation"} THEN "tier2_cheap"
  ELSE IF Len(query) <= ShortQueryLen
          /\ task \notin {"promotion_planning", "multi_division"}
       THEN "tier2_cheap"
  ELSE "tier3_full"

determine_model_tier(task, query) ==
  IF task \in {"inventory_monitoring", "channel_status"} THEN "tier1_free"
  ELSE IF task \in {"price_monitoring", "checklist_validation"} THEN "tier2_cheap"
  ELSE IF Len(query) < ShortQueryLen
          /\ task \notin {"promotion_planning", "multi_division"}
       THEN "tier2_cheap"
  ELSE "tier3_full"

\* route_to_next: the edge function that honours an error; a single
\* destination is a one-element list here
route_to_next(s_next, s_completed, s_error) ==
  LET pending == SelectSeq(s_next, LAMBDA d : d \notin Range(s_completed))
  IN  IF Truthy(s_error) THEN <<"error_handler">>
      ELSE IF s_next = <<>> \/ Range(s_next) \subseteq Range(s_completed)
           THEN <<"response_aggregator">>
      ELSE [i \in 1..Len(pending) |-> pending[i] \o "_supervisor"]

\* -------------------------------------------------------------- inputs
Queries ==
  {
    <<>>,
    <<"H","e","l","l","o">>,
    <<"P","l","a","n"," ","Q","2"," ","s","u","n","s","c","r","e","e","n"," ","p","r","o","m","o","t","i","o","n","s">>,
    <<"C","h","e","c","k"," ","O","l","i","v","e","y","o","u","n","g"," ","r","a","n","k","i","n","g","s"," ","a","n","d"," ","c","o","m","p","e","t","i","t","o","r"," ","p","r","i","c","i","n","g">>,
    <<"C","h","e","c","k"," ","O","l","i","v","e","y","o","u","n","g"," ","r","a","n","k","i","n","g","s">>,
    <<"uC7AC","uACE0"," ","uD655","uC778","uD574","uC918">>,
    <<"S","h","o","w"," ","i","n","v","e","n","t","o","r","y"," ","a","l","e","r","t","s">>,
    <<"A","n","a","l","y","z","e"," ","l","a","s","t"," ","m","o","n","t","h","'","s"," ","p","r","o","m","o","t","i","o","n"," ","p","e","r","f","o","r","m","a","n","c","e">>,
    <<"W","h","a","t"," ","a","r","e"," ","c","o","m","p","e","t","i","t","o","r","s"," ","d","o","i","n","g"," ","t","h","i","s"," ","w","e","e","k","?">>,
    <<"uB2E4","uC74C"," ","uBD84","uAE30"," ","uD504","uB85C","uBAA8","uC158"," ","uACC4","uD68D"," ","uC138","uC6CC","uC918">>,
    <<"p","r","e","-","l","a","u","n","c","h"," ","c","h","e","c","k","l","i","s","t">>,
    <<"a","n","a","l","y","z","e"," ","c","h","a","n","n","e","l"," ","p","e","r","f","o","r","m","a","n","c","e">>,
    <<"p","r","o","m","o","t","i","o","n"," ","p","l","a","n">>,
    <<"p","l","a","n","\n","p","r","o","m","o","t","i","o","n">>,
    <<"b","u","d","g","e","t">>,
    <<"p","r","i","c","e"," ","m","o","n","i","t","o","r"," ","r","e","s","e","l","l","e","r">>,
    <<"n","a","v","e","r"," ","c","h","a","n","n","e","l">>,
    <<"S","u","m","m","a","r","i","s","e"," ","c","u","s","t","o","m","e","r"," ","r","e","v","i","e","w"," ","s","e","n","t","i","m","e","n","t"," ","f","o","r"," ","t","h","e"," ","t","o","n","e","r"," ","l","i","n","e"," ","t","h","i","s"," ","m","o","n","t","h">>,
    <<"p","l","a","n","n","i","n","g">>,
    <<"s","e","a","s","o","n"," ","r","e","v","i","e","w">>,
    <<"p","r","e","-","l","a","u","n","c","h"," ","p","l","a","n">>
  }

\* classification, routing and tier of each sample query, as the coordinator
\* computes them from the text of the last message
QueryAnalyses ==
  {[query      |-> q,
    task_type  |-> classify_task(q),
    divisions  |-> determine_divisions(q, classify_task(q)),
    model_tier |-> determine_model_tier(classify_task(q), q)] : q \in Queries}

AnalyzeQuery(query) == CHOOSE a \in QueryAnalyses : a.query = query

\* earlier turns of a conversation handed to the graph with the last message
HistoryQueries ==
  { <<"H","e","l","l","o">>, <<"b","u","d","g","e","t">> }

BrandIds == 1..NumBrands

HashSeeds == 1..NumHashSeeds

\* ------------------------------------------------------------ messages
NoId == 0

HumanMessage(content) == [id |-> NoId, type |-> "human", content |-> content]

AIMessage(content) == [id |-> NoId, type |-> "ai", content |-> content]

\* message lists a caller may hand to the graph: at most MaxMessages user
\* messages, the last one any query
MessageLists ==
  {<<>>} \cup
  UNION {{[i \in 1..n |-> HumanMessage(IF i = n THEN q ELSE h[i])] :
            h \in [1..(n-1) -> HistoryQueries], q \in Queries} : n \in 1..MaxMessages}

\* add_messages gives every message without an id a fresh one
FreshCount(msgs) == Cardinality({i \in 1..Len(msgs) : msgs[i].id = NoId})

AssignIds(msgs, n) ==
  [i \in 1..Len(msgs) |->
     IF msgs[i].id = NoId
     THEN [msgs[i] EXCEPT !.id = n + Cardinality({j \in 1..(i-1) : msgs[j].id = NoId})]
     ELSE msgs[i]]

RECURSIVE MergeById(_, _)
\* a message whose id is already present replaces it in place, any other
\* message is appended
MergeById(merged, right) ==
  IF right = <<>> THEN merged
  ELSE LET m == Head(right)
           hit == {i \in 1..Len(merged) : merged[i].id = m.id}
       IN  MergeById(IF hit # {} THEN [merged EXCEPT ![CHOOSE i \in hit : TRUE] = m]
                     ELSE Append(merged, m),
                     Tail(right))

\* the reducer of the messages channel; n is the next fresh id
add_messages(left, right, n) ==
  MergeById(AssignIds(left, n), AssignIds(right, n + FreshCount(left)))

\* hash(query): a keyed hash, the key drawn once per process
py_hash(seed, query) == <<seed, query>>

\* ---------------------------------------------------- dict and list steps
\* {key: value}: the earlier entries are dropped
DictSet_Overwrite(d, key, value) == <<[key |-> key, value |-> value]>>

\* {key: value, **d}: a new key goes first
DictSet_Prepend(d, key, value) ==
  LET hit == {i \in 1..Len(d) : d[i].key = key}
  IN  IF hit # {} THEN [d EXCEPT ![CHOOSE i \in hit : TRUE] = [key |-> key, value |-> value]]
      ELSE <<[key |-> key, value |-> value]>> \o d

\* {**d, key: value}: an existing key keeps its position
DictSet(d, key, value) ==
  LET hit == {i \in 1..Len(d) : d[i].key = key}
  IN  IF hit # {} THEN [d EXCEPT ![CHOOSE i \in hit : TRUE] = [key |-> key, value |-> value]]
      ELSE Append(d, [key |-> key, value |-> value])

DictKeys(d) == [i \in 1..Len(d) |-> d[i].key]

\* completed.append(division_name) without the membership test
AppendIfAbsent_Always(completed, division_name) == Append(completed, division_name)

\* the division is never recorded as completed
AppendIfAbsent_Never(completed, division_name) == completed

\* a division already recorded moved to the end of the list
AppendIfAbsent_MoveToEnd(completed, division_name) ==
  Append(SelectSeq(completed, LAMBDA c : c # division_name), division_name)

\* if division_name not in completed: completed.append(division_name)
AppendIfAbsent(completed, division_name) ==
  IF division_name \notin Range(completed) THEN Append(completed, division_name)
  ELSE completed

RECURSIVE str_join(_, _)
\* sep.join(parts)
str_join(sep, parts) ==
  IF parts = <<>> THEN <<>>
  ELSE IF Len(parts) = 1 THEN parts[1]
  ELSE parts[1] \o sep \o str_join(sep, Tail(parts))

\* ---------------------------------------------------------- main_graph.py
\* division_name.replace('_', ' ').title()
DivisionTitle(division_name) ==
  str_title(str_replace(DivisionValue[division_name], "_", " "))

\* the placeholder result of a division supervisor node
DivisionResult(division_name) ==
  [division |-> division_name,
   status   |-> "processed",
   summary  |-> DivisionTitle(division_name)
                  \o <<" division has processed the request.">>]

NoResultsText ==
  <<"I've processed your request but no specific division results were generated.">>

\* the parts without the branch for an empty result mapping
ResponseParts_NoEmptyBranch(results) ==
  [i \in 1..Len(results) |->
     <<"**">> \o DivisionTitle(results[i].key) \o <<"**: ">>
       \o results[i].value.summary]

ResponseParts(results) ==
  IF results = <<>> THEN <<NoResultsText>>
  ELSE [i \in 1..Len(results) |->
          <<"**">> \o DivisionTitle(results[i].key) \o <<"**: ">>
            \o results[i].value.summary]

AggregatedResponse(results) == str_join(<<"\n\n">>, ResponseParts(results))

ErrorText(err) == IF err.is_none THEN <<"None">> ELSE err.value

ErrorMessage(err) ==
  <<"An error occurred while processing your request: ">> \o ErrorText(err)

SupervisorNode(division_name) == division_name \o "_supervisor"

PendingDivisions(s_next, s_completed) ==
  SelectSeq(s_next, LAMBDA d : d \notin Range(s_completed))

\* the coordinator edge without the error test
route_from_coordinator_IgnoresError(s_next, s_error) ==
  IF s_next = <<>> THEN "response_aggregator" ELSE SupervisorNode(s_next[1])

route_from_coordinator(s_next, s_error) ==
  IF Truthy(s_error) THEN "error_handler"
  ELSE IF s_next = <<>> THEN "response_aggregator"
  ELSE SupervisorNode(s_next[1])

\* pending computed with the two lists swapped
route_from_division_SwappedLists(s_next, s_completed) ==
  LET pending == PendingDivisions(s_completed, s_next)
  IN  IF pending = <<>> THEN "response_aggregator"
      ELSE SupervisorNode(pending[1])

\* the last pending division is taken instead of the first
route_from_division_LastPending(s_next, s_completed) ==
  LET pending == PendingDivisions(s_next, s_completed)
  IN  IF pending = <<>> THEN "response_aggregator"
      ELSE SupervisorNode(pending[Len(pending)])

route_from_division(s_next, s_completed) ==
  LET pending == PendingDivisions(s_next, s_completed)
  IN  IF pending = <<>> THEN "response_aggregator"
      ELSE SupervisorNode(pending[1])

\* the destinations of the conditional edges out of the coordinator
CoordinatorEdges ==
  {SupervisorNode(d) : d \in DivisionSet} \cup {"response_aggregator", "error_handler"}

\* the destinations of the conditional edges out of a division supervisor
DivisionEdges ==
  {SupervisorNode(d) : d \in DivisionSet} \cup {"response_aggregator"}

\* a route outside the edge map raises
FollowEdge(edges, route) == IF route \in edges THEN route ELSE "raised"

VARIABLES
  pc,                  \* the node to execute next, "idle" before a run, "END" after
  request,             \* how the run was started
  trace,               \* the nodes executed so far, in order
  hash_seed,           \* the string-hash key of this process
  next_id,             \* the next fresh message id
  messages, current_division, current_agent, brand_id, task_type,
  division_results, next_divisions, completed_divisions, use_mini_model,
  cache_key, error, retry_count,
  call,                \* the last call made on a component outside a graph run
  llm_invocations,     \* how many times a language model was invoked
  active_connections,  \* ConnectionManager.active_connections
  accepted,            \* how many websockets the endpoint has accepted
  broadcast_task,      \* where a call of ConnectionManager.broadcast stands
  delivered            \* the websockets the broadcast message was sent to, in order

routing_vars == <<task_type, next_divisions, use_mini_model, cache_key>>

vars ==
  <<pc, request, trace, hash_seed, next_id, messages, current_division,
    current_agent, brand_id, task_type, division_results, next_divisions,
    completed_divisions, use_mini_model, cache_key, error, retry_count,
    call, llm_invocations, active_connections, accepted, broadcast_task,
    delivered>>

\* the connection manager of the websocket endpoint
connection_vars == <<active_connections, accepted, broadcast_task, delivered>>

\* what no node of the graph touches
component_vars == <<call, llm_invocations, connection_vars>>

\* the fields create_initial_state sets (those the graph reads or writes)
create_initial_state(brand) ==
  [messages            |-> <<>>,
   current_division    |-> None,
   current_agent       |-> None,
   brand_id            |-> brand,
   task_type           |-> "general_query",
   division_results    |-> <<>>,
   next_divisions      |-> <<>>,
   completed_divisions |-> <<>>,
   use_mini_model      |-> FALSE,
   cache_key           |-> None,
   error               |-> None,
   retry_count         |-> 0]

\* graph.ainvoke(input): the input is written to the channels, the messages
\* through their reducer, and the entry point is scheduled
StartGraph(input) ==
  /\ messages' = add_messages(<<>>, input.messages, next_id)
  /\ next_id' = next_id + FreshCount(input.messages)
  /\ current_division' = input.current_division
  /\ current_agent' = input.current_agent
  /\ brand_id' = input.brand_id
  /\ task_type' = input.task_type
  /\ division_results' = input.division_results
  /\ next_divisions' = input.next_divisions
  /\ completed_divisions' = input.completed_divisions
  /\ use_mini_model' = input.use_mini_model
  /\ cache_key' = input.cache_key
  /\ error' = input.error
  /\ retry_count' = input.retry_count
  /\ trace' = <<>>
  /\ pc' = "chief_coordinator"

Init ==
  /\ pc = "idle"
  /\ request = [via |-> "none"]
  /\ trace = <<>>
  /\ hash_seed \in HashSeeds
  /\ next_id = 1
  /\ messages = <<>>
  /\ current_division = None
  /\ current_agent = None
  /\ brand_id = 0
  /\ task_type = "general_query"
  /\ division_results = <<>>
  /\ next_divisions = <<>>
  /\ completed_divisions = <<>>
  /\ use_mini_model = FALSE
  /\ cache_key = None
  /\ error = None
  /\ retry_count = 0
  /\ call = [fn |-> "none"]
  /\ llm_invocations = 0
  /\ active_connections = <<>>
  /\ accepted = 0
  /\ broadcast_task = [phase |-> "idle", di_used |-> 0, di_pos |-> 0, len |-> 0,
                       entry |-> 0, index |-> 0, target |-> 0, raised |-> "",
                       at_start |-> {}]
  /\ delivered = <<>>

process_request(query, brand) ==
  /\ pc = "idle"
  /\ request' = [via |-> "process_request", query |-> query]
  /\ StartGraph([create_initial_state(brand) EXCEPT !.messages = <<HumanMessage(query)>>])
  /\ UNCHANGED <<hash_seed, component_vars>>

\* the compiled graph run on a caller's message list
invoke_graph(msgs, brand) ==
  /\ pc = "idle"
  /\ request' = [via |-> "ainvoke"]
  /\ StartGraph([create_initial_state(brand) EXCEPT !.messages = msgs])
  /\ UNCHANGED <<hash_seed, component_vars>>

\* the returned messages taken as the new history, without the reducer
ReturnMessages_Overwrite(returned) ==
  /\ messages' = AssignIds(returned, next_id)
  /\ next_id' = next_id + FreshCount(returned)

\* every node returns {**state, ...}: the messages it returns go through
\* the reducer again
ReturnMessages(returned) ==
  /\ messages' = add_messages(messages, returned, next_id)
  /\ next_id' = next_id + FreshCount(returned)

\* a last message with empty content counted as no message
NoMessages_OrEmptyContent(msgs) ==
  msgs = <<>> \/ msgs[Len(msgs)].content = <<>>

\* not messages
NoMessages(msgs) == msgs = <<>>

chief_coordinator ==
  /\ pc = "chief_coordinator"
  /\ IF NoMessages(messages)
     THEN /\ error' = Some(<<"No messages to process">>)
          /\ UNCHANGED <<routing_vars, current_division, current_agent>>
     ELSE LET query == messages[Len(messages)].content
              analysis == AnalyzeQuery(query)
          IN  /\ task_type' = analysis.task_type
              /\ next_divisions' = analysis.divisions
              /\ use_mini_model' = (analysis.model_tier = "tier2_cheap")
              /\ cache_key' = Some(<<brand_id, analysis.task_type,
                                     py_hash(hash_seed, query)>>)
              /\ current_division' = None
              /\ current_agent' = Some("chief_coordinator")
              /\ UNCHANGED error
  /\ ReturnMessages(messages)
  /\ trace' = Append(trace, "chief_coordinator")
  /\ pc' = FollowEdge(CoordinatorEdges, route_from_coordinator(next_divisions', error'))
  /\ UNCHANGED <<component_vars, request, hash_seed, brand_id, division_results,
                 completed_divisions, retry_count>>

\* the body of one division supervisor node and the edge out of it
DivisionStep(division_name) ==
  /\ current_division' = Some(division_name)
  /\ division_results' = DictSet(division_results, division_name,
                                 DivisionResult(division_name))
  /\ completed_divisions' = AppendIfAbsent(completed_divisions, division_name)
  /\ ReturnMessages(messages)
  /\ trace' = Append(trace, SupervisorNode(division_name))
  /\ pc' = FollowEdge(DivisionEdges,
                      route_from_division(next_divisions, completed_divisions'))
  /\ UNCHANGED <<component_vars, request, hash_seed, current_agent, brand_id, routing_vars,
                 error, retry_count>>

division_supervisor(division_name) ==
  /\ pc = SupervisorNode(division_name)
  /\ DivisionStep(division_name)

response_aggregator ==
  /\ pc = "response_aggregator"
  /\ ReturnMessages(<<AIMessage(AggregatedResponse(division_results))>>)
  /\ current_agent' = Some("response_aggregator")
  /\ trace' = Append(trace, "response_aggregator")
  /\ pc' = "END"
  /\ UNCHANGED <<component_vars, request, hash_seed, current_division, brand_id, routing_vars,
                 division_results, completed_divisions, error, retry_count>>

\* the error handler counting a retry
error_handler_CountsRetry ==
  /\ pc = "error_handler"
  /\ ReturnMessages(<<AIMessage(ErrorMessage(error))>>)
  /\ current_agent' = Some("error_handler")
  /\ retry_count' = retry_count + 1
  /\ trace' = Append(trace, "error_handler")
  /\ pc' = "END"
  /\ UNCHANGED <<component_vars, request, hash_seed, current_division, brand_id, routing_vars,
                 division_results, completed_divisions, error>>

error_handler ==
  /\ pc = "error_handler"
  /\ ReturnMessages(<<AIMessage(ErrorMessage(error))>>)
  /\ current_agent' = Some("error_handler")
  /\ trace' = Append(trace, "error_handler")
  /\ pc' = "END"
  /\ UNCHANGED <<component_vars, request, hash_seed, current_division, brand_id, routing_vars,
                 division_results, completed_divisions, error, retry_count>>

Next ==
  \/ \E q \in Queries, b \in BrandIds : process_request(q, b)
  \/ \E m \in MessageLists, b \in BrandIds : invoke_graph(m, b)
  \/ chief_coordinator
  \/ \E d \in DivisionSet : division_supervisor(d)
  \/ response_aggregator
  \/ error_handler

Spec == Init /\ [][Next]_vars

\* the event loop runs a started graph to its end
FairSpec == Spec /\ WF_vars(Next)

\* ------------------------------------------- division nodes on any state
\* the division lists the router returns for the sample queries
RoutedLists == {a.divisions : a \in QueryAnalyses}

\* the error field of a state handed to a division node
StepErrors == {None, Some(<<"division failed">>)}

\* a state as create_initial_state builds it, with the routing result and
\* the error field drawn freely
FreeInit ==
  /\ pc = "idle"
  /\ request = [via |-> "node"]
  /\ trace = <<>>
  /\ hash_seed = 1
  /\ next_id = 1
  /\ messages = <<>>
  /\ current_division = None
  /\ current_agent = None
  /\ brand_id = 1
  /\ task_type = "general_query"
  /\ division_results = <<>>
  /\ next_divisions \in RoutedLists
  /\ completed_divisions = <<>>
  /\ use_mini_model = FALSE
  /\ cache_key = None
  /\ error \in StepErrors
  /\ retry_count = 0
  /\ call = [fn |-> "none"]
  /\ llm_invocations = 0
  /\ active_connections = <<>>
  /\ accepted = 0
  /\ broadcast_task = [phase |-> "idle", di_used |-> 0, di_pos |-> 0, len |-> 0,
                       entry |-> 0, index |-> 0, target |-> 0, raised |-> "",
                       at_start |-> {}]
  /\ delivered = <<>>

\* any division supervisor node executes, whatever ran before it
FreeStep(division_name) ==
  /\ Len(trace) < MaxFreeSteps
  /\ DivisionStep(division_name)

FreeNext == \E d \in DivisionSet : FreeStep(d)

FreeSpec == FreeInit /\ [][FreeNext]_vars

\* ------------------------------------------- components called on their own
\* every keyword of a category as a query of its own
KeywordQueries ==
  UNION {Range(TASK_KEYWORDS[c].keywords) : c \in 1..Len(TASK_KEYWORDS)}

\* two neighbouring keywords of one category, separated by a space
KeywordPairQueries ==
  UNION {{TASK_KEYWORDS[c].keywords[i] \o <<" ">> \o TASK_KEYWORDS[c].keywords[i + 1] :
            i \in 1..(Len(TASK_KEYWORDS[c].keywords) - 1)} :
         c \in 1..Len(TASK_KEYWORDS)}

\* queries matching several patterns, and queries of 49, 50 and 51 characters
PatternAndLengthQueries ==
  {
    <<"p","r","e","-","l","a","u","n","c","h"," ","p","l","a","n">>,
    <<"p","l","a","n"," ","c","h","a","n","n","e","l"," ","p","e","r","f","o","r","m","a","n","c","e">>,
    <<"p","r","e","-","l","a","u","n","c","h"," ","p","r","o","m","o","t","i","o","n"," ","p","l","a","n">>,
    <<"P","l","a","n"," ","t","h","e"," ","p","r","e","-","l","a","u","n","c","h"," ","p","r","o","m","o","t","i","o","n">>,
    <<"p","r","e","-","l","a","u","n","c","h"," ","c","h","a","n","n","e","l"," ","p","e","r","f","o","r","m","a","n","c","e">>,
    <<"S","u","m","m","a","r","i","s","e"," ","c","u","s","t","o","m","e","r"," ","r","e","v","i","e","w"," ","s","e","n","t","i","m","e","n","t"," ","f","o","r"," ","t","h","e"," ","t","o","n","e","r">>,
    <<"S","u","m","m","a","r","i","s","e"," ","c","u","s","t","o","m","e","r"," ","r","e","v","i","e","w"," ","s","e","n","t","i","m","e","n","t"," ","f","o","r"," ","t","h","e"," ","t","o","n","e","r","s">>,
    <<"S","u","m","m","a","r","i","s","e"," ","c","u","s","t","o","m","e","r"," ","r","e","v","i","e","w"," ","s","e","n","t","i","m","e","n","t"," ","f","o","r"," ","t","h","e"," ","t","o","n","e","r","s",".">>
  }

\* the queries handed to the router and the tier selector, with any category
RouteQueries == Queries \cup PatternAndLengthQueries

\* the queries handed to the classifier
ClassifyQueries == RouteQueries \cup KeywordQueries \cup KeywordPairQueries

\* the variables of a graph state
state_vars ==
  <<request, trace, hash_seed, next_id, messages, current_division,
    current_agent, brand_id, task_type, division_results, next_divisions,
    completed_divisions, use_mini_model, cache_key, error, retry_count>>

\* classify_task(query) called on a query
call_classify_task(query) ==
  /\ pc = "idle"
  /\ call' = [fn |-> "classify_task", query |-> query,
              result |-> classify_task(query)]
  /\ pc' = "returned"
  /\ UNCHANGED <<state_vars, llm_invocations, connection_vars>>

\* determine_divisions(query, task_type) called on any query and category
call_determine_divisions(query, task) ==
  /\ pc = "idle"
  /\ call' = [fn |-> "determine_divisions", query |-> query, task |-> task,
              result |-> determine_divisions(query, task)]
  /\ pc' = "returned"
  /\ UNCHANGED <<state_vars, llm_invocations, connection_vars>>

\* determine_model_tier(task_type, query) called on any category and query
call_determine_model_tier(task, query) ==
  /\ pc = "idle"
  /\ call' = [fn |-> "determine_model_tier", query |-> query, task |-> task,
              result |-> determine_model_tier(task, query)]
  /\ pc' = "returned"
  /\ UNCHANGED <<state_vars, llm_invocations, connection_vars>>

\* route_request returning without a cache key
route_request_return_NoCacheKey(state, seed) ==
  IF NoMessages(state.messages)
  THEN [state EXCEPT !.error = Some(<<"No messages to process">>)]
  ELSE LET query == state.messages[Len(state.messages)].content
           analysis == AnalyzeQuery(query)
       IN  [state EXCEPT
              !.task_type = analysis.task_type,
              !.next_divisions = analysis.divisions,
              !.use_mini_model = (analysis.model_tier = "tier2_cheap"),
              !.current_agent = Some("chief_coordinator")]

\* the state ChiefCoordinator.route_request returns for a state, in a
\* process whose string hash has the given seed
route_request_return(state, seed) ==
  IF NoMessages(state.messages)
  THEN [state EXCEPT !.error = Some(<<"No messages to process">>)]
  ELSE LET query == state.messages[Len(state.messages)].content
           analysis == AnalyzeQuery(query)
       IN  [state EXCEPT
              !.task_type = analysis.task_type,
              !.next_divisions = analysis.divisions,
              !.use_mini_model = (analysis.model_tier = "tier2_cheap"),
              !.cache_key = Some(<<state.brand_id, analysis.task_type,
                                   py_hash(seed, query)>>),
              !.current_agent = Some("chief_coordinator")]

\* the graph state as the dictionary a node receives
GraphState ==
  [messages            |-> messages,
   current_division    |-> current_division,
   current_agent       |-> current_agent,
   brand_id            |-> brand_id,
   task_type           |-> task_type,
   division_results    |-> division_results,
   next_divisions      |-> next_divisions,
   completed_divisions |-> completed_divisions,
   use_mini_model      |-> use_mini_model,
   cache_key           |-> cache_key,
   error               |-> error,
   retry_count         |-> retry_count]

\* ChiefCoordinator.route_request on a state as create_initial_state builds
\* it, holding the caller's messages; analyze_request is its routing step
route_request(msgs, brand) ==
  /\ pc = "idle"
  /\ request' = [via |-> "route_request"]
  /\ messages' = msgs
  /\ brand_id' = brand
  /\ IF NoMessages(msgs)
     THEN /\ error' = Some(<<"No messages to process">>)
          /\ UNCHANGED <<routing_vars, current_agent, call>>
     ELSE LET query == msgs[Len(msgs)].content
              analysis == AnalyzeQuery(query)
          IN  /\ call' = [fn |-> "analyze_request", query |-> query,
                          result |->
                            [task_type         |-> analysis.task_type,
                             divisions         |-> analysis.divisions,
                             model_tier        |-> analysis.model_tier,
                             use_mini_model    |-> analysis.model_tier = "tier2_cheap",
                             is_multi_division |-> Len(analysis.divisions) > 1]]
              /\ task_type' = analysis.task_type
              /\ next_divisions' = analysis.divisions
              /\ use_mini_model' = (analysis.model_tier = "tier2_cheap")
              /\ cache_key' = Some(<<brand, analysis.task_type,
                                     py_hash(hash_seed, query)>>)
              /\ current_agent' = Some("chief_coordinator")
              /\ UNCHANGED error
  /\ pc' = "routed"
  /\ UNCHANGED <<trace, hash_seed, next_id, current_division, division_results,
                 completed_divisions, retry_count, llm_invocations, connection_vars>>

\* the keyword lists of OperationsSupervisor.route_to_agent, in test order
OperationsAgentKeywords ==
  <<[agent |-> "inventory_checker",
     keywords |-> << <<"i","n","v","e","n","t","o","r","y">>, <<"s","t","o","c","k">>,
                     <<"uC7AC","uACE0">>, <<"uD488","uC808">>, <<"uBB3C","uB7C9">> >>],
    [agent |-> "price_monitor",
     keywords |-> << <<"p","r","i","c","e">>, <<"m","a","p">>,
                     <<"v","i","o","l","a","t","i","o","n">>,
                     <<"r","e","s","e","l","l","e","r">>,
                     <<"uAC00","uACA9">>, <<"uC704","uBC18">> >>],
    [agent |-> "checklist_manager",
     keywords |-> << <<"c","h","e","c","k","l","i","s","t">>,
                     <<"c","o","m","p","l","i","a","n","c","e">>,
                     <<"l","a","u","n","c","h">>,
                     <<"uCCB4","uD06C","uB9AC","uC2A4","uD2B8">>,
                     <<"uAC80","uC99D">>, <<"uB7F0","uCE6D">> >>] >>

\* the agents create_operations_division registers with the supervisor
OperationsAgents == {"inventory_checker", "price_monitor", "checklist_manager"}

\* OperationsSupervisor.route_to_agent
OperationsRouteToAgent(msgs) ==
  IF NoMessages(msgs) THEN "operations_supervisor"
  ELSE LET query_lower == str_lower(msgs[Len(msgs)].content)
           hits == {i \in 1..Len(OperationsAgentKeywords) :
                      \E k \in 1..Len(OperationsAgentKeywords[i].keywords) :
                        str_contains(OperationsAgentKeywords[i].keywords[k], query_lower)}
       IN  IF hits = {} THEN "inventory_checker"
           ELSE OperationsAgentKeywords[CHOOSE i \in hits : \A j \in hits : i <= j].agent

\* BaseAgent.process: one invocation of the language model, whatever the
\* state's category, tier or use_mini_model says
BaseAgentProcess ==
  llm_invocations' = llm_invocations + 1

\* OperationsSupervisor.process on the routed state: the agent route_to_agent
\* names, or the supervisor itself when that agent is not registered, answers
\* through BaseAgent.process
OperationsSupervisorProcess ==
  /\ pc = "routed"
  /\ ~Truthy(error)
  /\ "operations" \in Range(next_divisions)
  /\ LET agent_name == OperationsRouteToAgent(messages)
     IN  /\ BaseAgentProcess
         /\ call' = [fn |-> "OperationsSupervisor.process",
                     division   |-> "operations",
                     supervisor |-> "operations_supervisor",
                     routed_to  |-> agent_name,
                     answered_by |-> IF agent_name \in OperationsAgents
                                     THEN agent_name ELSE "operations_supervisor"]
  /\ pc' = "processed"
  /\ UNCHANGED <<state_vars, connection_vars>>

\* the keyword lists of StrategicPlanningSupervisor.route_to_agent, in test order
StrategicPlanningAgentKeywords ==
  <<[agent |-> "promotion_planner",
     keywords |-> << <<"c","a","l","e","n","d","a","r">>,
                     <<"p","l","a","n">>,
                     <<"c","a","m","p","a","i","g","n">>,
                     <<"p","r","o","m","o","t","i","o","n">>,
                     <<"uCE98","uB9B0","uB354">>,
                     <<"uACC4","uD68D">>,
                     <<"uCEA0","uD398","uC778">> >>],
    [agent |-> "timeline_manager",
     keywords |-> << <<"d","e","a","d","l","i","n","e">>,
                     <<"t","i","m","e","l","i","n","e">>,
                     <<"s","c","h","e","d","u","l","e">>,
                     <<"m","i","l","e","s","t","o","n","e">>,
                     <<"uB9C8","uAC10">>,
                     <<"uC77C","uC815">> >>],
    [agent |-> "budget_allocator",
     keywords |-> << <<"b","u","d","g","e","t">>,
                     <<"c","o","s","t">>,
                     <<"r","o","i">>,
                     <<"s","p","e","n","d">>,
                     <<"uC608","uC0B0">>,
                     <<"uBE44","uC6A9">> >>] >>

\* the keyword lists of MarketIntelligenceSupervisor.route_to_agent, in test order
MarketIntelligenceAgentKeywords ==
  <<[agent |-> "industry_news_scout",
     keywords |-> << <<"n","e","w","s">>,
                     <<"t","r","e","n","d">>,
                     <<"b","u","z","z">>,
                     <<"uB274","uC2A4">>,
                     <<"uD2B8","uB80C","uB4DC">>,
                     <<"uC774","uC288">> >>],
    [agent |-> "competitor_watcher",
     keywords |-> << <<"c","o","m","p","e","t","i","t","o","r">>,
                     <<"i","n","n","i","s","f","r","e","e">>,
                     <<"l","a","n","e","i","g","e">>,
                     <<"uACBD","uC7C1","uC0AC">>,
                     <<"uACBD","uC7C1">> >>],
    [agent |-> "ingredient_trend_analyst",
     keywords |-> << <<"i","n","g","r","e","d","i","e","n","t">>,
                     <<"r","e","t","i","n","o","l">>,
                     <<"c","e","n","t","e","l","l","a">>,
                     <<"uC131","uBD84">>,
                     <<"uC6D0","uB8CC">> >>],
    [agent |-> "seasonal_pattern_analyst",
     keywords |-> << <<"s","e","a","s","o","n">>,
                     <<"d","e","m","a","n","d">>,
                     <<"h","o","l","i","d","a","y">>,
                     <<"e","v","e","n","t">>,
                     <<"uACC4","uC808">>,
                     <<"uC218","uC694">>,
                     <<"uC2DC","uC98C">> >>] >>

\* the keyword lists of ChannelManagementSupervisor.route_to_agent, in test order
ChannelManagementAgentKeywords ==
  <<[agent |-> "oliveyoung_agent",
     keywords |-> << <<"o","l","i","v","e","y","o","u","n","g">>,
                     <<"uC62C","uB9AC","uBE0C","uC601">>,
                     <<"uC62C","uC601">> >>],
    [agent |-> "coupang_agent",
     keywords |-> << <<"c","o","u","p","a","n","g">>,
                     <<"uCFE0","uD321">>,
                     <<"r","o","c","k","e","t">>,
                     <<"uB85C","uCF13">> >>],
    [agent |-> "naver_agent",
     keywords |-> << <<"n","a","v","e","r">>,
                     <<"uB124","uC774","uBC84">>,
                     <<"s","m","a","r","t"," ","s","t","o","r","e">>,
                     <<"uC2A4","uB9C8","uD2B8","uC2A4","uD1A0","uC5B4">>,
                     <<"s","h","o","p","p","i","n","g"," ","l","i","v","e">> >>],
    [agent |-> "kakao_agent",
     keywords |-> << <<"k","a","k","a","o">>,
                     <<"uCE74","uCE74","uC624">>,
                     <<"g","i","f","t">>,
                     <<"uC120","uBB3C","uD558","uAE30">> >>],
    [agent |-> "cross_channel_syncer",
     keywords |-> << <<"s","y","n","c">>,
                     <<"c","o","n","s","i","s","t","e","n","c","y">>,
                     <<"c","r","o","s","s">>,
                     <<"a","l","l"," ","c","h","a","n","n","e","l">>,
                     <<"uC804","uCCB4">>,
                     <<"uB3D9","uAE30","uD654">>,
                     <<"uC77C","uCE58">> >>] >>

\* the keyword lists of AnalyticsSupervisor.route_to_agent, in test order
AnalyticsAgentKeywords ==
  <<[agent |-> "review_sentiment_analyst",
     keywords |-> << <<"r","e","v","i","e","w">>,
                     <<"s","e","n","t","i","m","e","n","t">>,
                     <<"f","e","e","d","b","a","c","k">>,
                     <<"uB9AC","uBDF0">>,
                     <<"uD3C9","uAC00">>,
                     <<"uACE0","uAC1D","uBC18","uC751">> >>],
    [agent |-> "promotion_reviewer",
     keywords |-> << <<"p","r","o","m","o","t","i","o","n"," ","r","e","s","u","l","t">>,
                     <<"p","e","r","f","o","r","m","a","n","c","e">>,
                     <<"h","o","w"," ","d","i","d">>,
                     <<"uC131","uACFC">>,
                     <<"uACB0","uACFC">> >>],
    [agent |-> "bundle_analyzer",
     keywords |-> << <<"b","u","n","d","l","e">>,
                     <<"c","r","o","s","s","-","s","e","l","l">>,
                     <<"u","p","s","e","l","l">>,
                     <<"uC138","uD2B8">>,
                     <<"uBC88","uB4E4">> >>],
    [agent |-> "margin_calculator",
     keywords |-> << <<"m","a","r","g","i","n">>,
                     <<"p","r","o","f","i","t">>,
                     <<"d","i","s","c","o","u","n","t">>,
                     <<"uB9C8","uC9C4">>,
                     <<"uC218","uC775">>,
                     <<"uD560","uC778">> >>],
    [agent |-> "stockout_predictor",
     keywords |-> << <<"s","t","o","c","k">>,
                     <<"i","n","v","e","n","t","o","r","y">>,
                     <<"s","t","o","c","k","o","u","t">>,
                     <<"uC7AC","uACE0">>,
                     <<"uD488","uC808">> >>],
    [agent |-> "influencer_roi_analyst",
     keywords |-> << <<"i","n","f","l","u","e","n","c","e","r">>,
                     <<"k","o","l">>,
                     <<"c","r","e","a","t","o","r">>,
                     <<"uC778","uD50C","uB8E8","uC5B8","uC11C">>,
                     <<"uD06C","uB9AC","uC5D0","uC774","uD130">> >>],
    [agent |-> "attribution_analyst",
     keywords |-> << <<"a","t","t","r","i","b","u","t","i","o","n">>,
                     <<"c","h","a","n","n","e","l"," ","c","o","n","t","r","i","b","u","t","i","o","n">>,
                     <<"uAE30","uC5EC","uB3C4">>,
                     <<"uC5B4","uD2B8","uB9AC","uBDF0","uC158">> >>] >>
\* the keyword groups of a division supervisor's route_to_agent
AgentKeywords(d) ==
  CASE d = "strategic_planning"  -> StrategicPlanningAgentKeywords
    [] d = "market_intelligence" -> MarketIntelligenceAgentKeywords
    [] d = "channel_management"  -> ChannelManagementAgentKeywords
    [] d = "analytics"           -> AnalyticsAgentKeywords
    [] d = "operations"          -> OperationsAgentKeywords

\* the agent route_to_agent returns when no keyword group matches
DefaultAgent(d) ==
  CASE d = "strategic_planning"  -> "promotion_planner"
    [] d = "market_intelligence" -> "industry_news_scout"
    [] d = "channel_management"  -> "cross_channel_syncer"
    [] d = "analytics"           -> "promotion_reviewer"
    [] d = "operations"          -> "inventory_checker"

\* the agents the factory of a division registers with its supervisor
FactoryAgents(d) ==
  CASE d = "strategic_planning"  ->
         {"promotion_planner", "timeline_manager", "budget_allocator"}
    [] d = "market_intelligence" ->
         {"industry_news_scout", "competitor_watcher",
          "ingredient_trend_analyst", "seasonal_pattern_analyst"}
    [] d = "channel_management"  ->
         {"oliveyoung_agent", "coupang_agent", "naver_agent", "kakao_agent",
          "cross_channel_syncer"}
    [] d = "analytics"           ->
         {"review_sentiment_analyst", "promotion_reviewer", "bundle_analyzer",
          "margin_calculator", "stockout_predictor", "influencer_roi_analyst",
          "attribution_analyst"}
    [] d = "operations"          -> OperationsAgents

\* the name attribute of a division's supervisor class
SupervisorName(d) == d \o "_supervisor"

\* the keyword groups of a division that occur in the lower-cased text
MatchingGroups(d, text) ==
  LET groups == AgentKeywords(d)
      text_lower == str_lower(text)
  IN  {i \in 1..Len(groups) :
         \E k \in 1..Len(groups[i].keywords) :
           str_contains(groups[i].keywords[k], text_lower)}

\* the last matching keyword group taken instead of the first
route_to_agent_LastGroup(d, msgs) ==
  IF NoMessages(msgs) THEN SupervisorName(d)
  ELSE LET hits == MatchingGroups(d, msgs[Len(msgs)].content)
       IN  IF hits = {} THEN DefaultAgent(d)
           ELSE AgentKeywords(d)[CHOOSE i \in hits : \A j \in hits : i >= j].agent

\* route_to_agent of the supervisor of division d
route_to_agent(d, msgs) ==
  IF NoMessages(msgs) THEN SupervisorName(d)
  ELSE LET hits == MatchingGroups(d, msgs[Len(msgs)].content)
       IN  IF hits = {} THEN DefaultAgent(d)
           ELSE AgentKeywords(d)[CHOOSE i \in hits : \A j \in hits : i <= j].agent

\* BaseDivisionSupervisor.process: route_to_agent, then the registered agent
\* of that name, or BaseAgent.process of the supervisor itself when
\* self.agents.get finds none; answered_by lists whose BaseAgent.process ran
BaseDivisionSupervisorProcess(d, registered, msgs) ==
  LET agent_name == route_to_agent(d, msgs)
  IN  [answered_by       |-> IF agent_name \in registered
                             THEN <<agent_name>> ELSE <<SupervisorName(d)>>,
       route_evaluations |-> 1,
       raised            |-> FALSE]

\* the fallback answering directly, without BaseDivisionSupervisor.process
DivisionSupervisorProcess_DirectFallback(d, registered, msgs) ==
  LET agent_name == route_to_agent(d, msgs)
  IN  [division          |-> d,
       supervisor        |-> SupervisorName(d),
       routed_to         |-> agent_name,
       answered_by       |-> IF agent_name \in registered
                             THEN <<agent_name>> ELSE <<SupervisorName(d)>>,
       route_evaluations |-> 1,
       raised            |-> FALSE]

\* the agent looked up with self.agents[agent_name], which raises KeyError
\* for a name that is not registered
DivisionSupervisorProcess_IndexLookup(d, registered, msgs) ==
  LET agent_name == route_to_agent(d, msgs)
  IN  [division          |-> d,
       supervisor        |-> SupervisorName(d),
       routed_to         |-> agent_name,
       answered_by       |-> IF agent_name \in registered
                             THEN <<agent_name>> ELSE <<>>,
       route_evaluations |-> 1,
       raised            |-> agent_name \notin registered]

\* process of the five division supervisors: route_to_agent, then the
\* registered agent's process, or super().process when get_agent finds none
DivisionSupervisorProcess(d, registered, msgs) ==
  LET agent_name == route_to_agent(d, msgs)
      result == IF agent_name \in registered
                THEN [answered_by |-> <<agent_name>>, route_evaluations |-> 0,
                      raised |-> FALSE]
                ELSE BaseDivisionSupervisorProcess(d, registered, msgs)
  IN  [division          |-> d,
       supervisor        |-> SupervisorName(d),
       routed_to         |-> agent_name,
       answered_by       |-> result.answered_by,
       route_evaluations |-> 1 + result.route_evaluations,
       raised            |-> result.raised]

\* the agent mappings a supervisor is constructed with: the factory's, the
\* factory's without one agent, and none
RegisteredChoices(d) ==
  {FactoryAgents(d), {}} \cup {FactoryAgents(d) \ {a} : a \in FactoryAgents(d)}

\* supervisor.process(state) of division d on the state the coordinator
\* returned; every answer is one BaseAgent.process, one model invocation
supervisor_process(d, registered) ==
  /\ pc = "routed"
  /\ LET r == DivisionSupervisorProcess(d, registered, messages)
     IN  /\ call' = [fn                |-> "supervisor.process",
                     registered        |-> registered,
                     division          |-> r.division,
                     supervisor        |-> r.supervisor,
                     routed_to         |-> r.routed_to,
                     answered_by       |-> r.answered_by,
                     route_evaluations |-> r.route_evaluations,
                     raised            |-> r.raised]
         /\ llm_invocations' = llm_invocations + Len(r.answered_by)
  /\ pc' = "processed"
  /\ UNCHANGED <<state_vars, connection_vars>>

\* every keyword of every group of a division as a query of its own
GroupKeywordQueries(d) ==
  UNION {Range(AgentKeywords(d)[i].keywords) : i \in 1..Len(AgentKeywords(d))}

\* the message lists handed to route_to_agent
RouteToAgentInputs ==
  {<<>>} \cup
  {<<HumanMessage(q)>> :
     q \in Queries \cup UNION {GroupKeywordQueries(d) : d \in DivisionSet}}

\* supervisor.route_to_agent(state) called on a state with these messages
call_route_to_agent(d, msgs) ==
  /\ pc = "idle"
  /\ call' = [fn |-> "route_to_agent", division |-> d, msgs |-> msgs,
              result |-> route_to_agent(d, msgs)]
  /\ pc' = "returned"
  /\ UNCHANGED <<state_vars, llm_invocations, connection_vars>>

\* ------------------------------------------------------- api/websocket.py
\* the client identifiers of the websocket endpoint
ClientIds == 1..NumClients

\* active_connections is a dict: its entries in insertion order; del leaves
\* a dead entry behind, and a dict of at most five entries is never resized
LiveEntries(d) == {i \in 1..Len(d) : d[i].live}

\* len(d)
DictUsed(d) == Cardinality(LiveEntries(d))

\* client_id in self.active_connections
HasClient(d, client_id) == \E i \in LiveEntries(d) : d[i].key = client_id

\* the entry of self.active_connections[client_id]
EntryOf(d, client_id) == CHOOSE i \in LiveEntries(d) : d[i].key = client_id

\* the websockets held in the lists of the dict
Registered(d) == UNION {Range(d[i].connections) : i \in LiveEntries(d)}

\* how many times the broadcast message was sent to a websocket
TimesSent(websocket) ==
  Cardinality({i \in 1..Len(delivered) : delivered[i] = websocket})

\* no broadcast running
IdleTask ==
  [phase |-> "idle", di_used |-> 0, di_pos |-> 0, len |-> 0, entry |-> 0,
   index |-> 0, target |-> 0, raised |-> "", at_start |-> {}]

\* next() of the iterator of active_connections.values()
OuterNext(d, t) ==
  IF t.di_used # DictUsed(d)
  THEN [t EXCEPT !.phase = "error",
                 !.raised = "RuntimeError: dictionary changed size during iteration"]
  ELSE LET later == {i \in LiveEntries(d) : i >= t.di_pos}
       IN  IF later = {} THEN [t EXCEPT !.phase = "done"]
           ELSE IF t.len = 0
           THEN [t EXCEPT !.phase = "error",
                          !.raised = "RuntimeError: dictionary keys changed during iteration"]
           ELSE LET i == CHOOSE e \in later : \A f \in later : e <= f
                IN  [t EXCEPT !.phase = "inner", !.di_pos = i + 1, !.len = @ - 1,
                              !.entry = i, !.index = 1]

\* next() of the iterator of the list `connections`
InnerNext(d, t) ==
  IF t.index <= Len(d[t.entry].connections)
  THEN [t EXCEPT !.phase = "sending",
                 !.target = d[t.entry].connections[t.index],
                 !.index = @ + 1]
  ELSE [t EXCEPT !.phase = "outer"]

\* the two for loops of broadcast run up to the next await of send_text, to
\* the end of the outer loop or to an exception
RunToAwait(d, t) ==
  LET a == IF t.phase = "inner" THEN InnerNext(d, t) ELSE t
      b == IF a.phase = "outer" THEN OuterNext(d, a) ELSE a
  IN  IF b.phase = "inner" THEN InnerNext(d, b) ELSE b

\* the endpoint's manager.connect(websocket, client_id), from accept() on
connect(client_id) ==
  /\ accepted < MaxConnections
  /\ accepted' = accepted + 1
  /\ LET websocket == accepted + 1
     IN  active_connections' =
           IF HasClient(active_connections, client_id)
           THEN [active_connections EXCEPT
                   ![EntryOf(active_connections, client_id)].connections =
                     Append(@, websocket)]
           ELSE Append(active_connections,
                       [key |-> client_id, connections |-> <<websocket>>,
                        live |-> TRUE])
  /\ UNCHANGED <<pc, state_vars, call, llm_invocations, broadcast_task, delivered>>

\* the endpoint's manager.disconnect(websocket, client_id) on
\* WebSocketDisconnect, for the websocket it connected
disconnect(websocket, client_id) ==
  /\ HasClient(active_connections, client_id)
  /\ LET e == EntryOf(active_connections, client_id)
         rest == SelectSeq(active_connections[e].connections,
                           LAMBDA c : c # websocket)
     IN  /\ websocket \in Range(active_connections[e].connections)
         /\ active_connections' =
              [active_connections EXCEPT
                 ![e] = IF rest = <<>>
                        THEN [key |-> client_id, connections |-> <<>>, live |-> FALSE]
                        ELSE [@ EXCEPT !.connections = rest]]
  /\ UNCHANGED <<pc, state_vars, call, llm_invocations, accepted, broadcast_task,
                 delivered>>

\* manager.broadcast(message) called: it runs to its first await
broadcast ==
  /\ broadcast_task.phase = "idle"
  /\ broadcast_task' =
       RunToAwait(active_connections,
                  [IdleTask EXCEPT !.phase = "outer",
                                   !.di_used = DictUsed(active_connections),
                                   !.di_pos = 1,
                                   !.len = DictUsed(active_connections),
                                   !.at_start = Registered(active_connections)])
  /\ UNCHANGED <<pc, state_vars, call, llm_invocations, active_connections, accepted,
                 delivered>>

\* the awaited connection.send_text(message_json) returns and broadcast
\* resumes
send_text_returns ==
  /\ broadcast_task.phase = "sending"
  /\ delivered' = Append(delivered, broadcast_task.target)
  /\ broadcast_task' =
       RunToAwait(active_connections, [broadcast_task EXCEPT !.phase = "inner"])
  /\ UNCHANGED <<pc, state_vars, call, llm_invocations, active_connections, accepted>>

\* the awaited send_text raises: the peer went away while it was pending
send_text_raises ==
  /\ broadcast_task.phase = "sending"
  /\ broadcast_task.target \notin Registered(active_connections)
  /\ broadcast_task' =
       [broadcast_task EXCEPT !.phase = "error",
                              !.raised = "send on a disconnected websocket"]
  /\ UNCHANGED <<pc, state_vars, call, llm_invocations, active_connections, accepted,
                 delivered>>

ConnectionNext ==
  \/ \E c \in ClientIds : connect(c)
  \/ \E w \in 1..MaxConnections, c \in ClientIds : disconnect(w, c)
  \/ broadcast
  \/ send_text_returns
  \/ send_text_raises

ConnectionSpec == Init /\ [][ConnectionNext]_vars

\* the messages of a state handed to the coordinator agent
CoordinatorInputs == {<<>>} \cup {<<HumanMessage(q)>> : q \in Queries}

ComponentNext ==
  \/ \E q \in ClassifyQueries : call_classify_task(q)
  \/ \E q \in RouteQueries, t \in TaskType : call_determine_divisions(q, t)
  \/ \E q \in RouteQueries, t \in TaskType : call_determine_model_tier(t, q)
  \/ \E m \in CoordinatorInputs, b \in BrandIds : route_request(m, b)
  \/ OperationsSupervisorProcess

ComponentSpec == Init /\ [][ComponentNext]_vars

\* the coordinator agent and the division supervisors called on a state
SupervisorNext ==
  \/ \E m \in CoordinatorInputs, b \in BrandIds : route_request(m, b)
  \/ \E d \in DivisionSet : \E r \in RegisteredChoices(d) : supervisor_process(d, r)
  \/ \E d \in DivisionSet, m \in RouteToAgentInputs : call_route_to_agent(d, m)

SupervisorSpec == Init /\ [][SupervisorNext]_vars

\* ------------------------------------------------------------ properties
SupervisorNodes == {SupervisorNode(d) : d \in DivisionSet}

\* the division supervisor nodes executed so far, in order
VisitedNodes == SelectSeq(trace, LAMBDA n : n \in SupervisorNodes)

LastMessage == messages[Len(messages)]

\* C1: a run started at the coordinator reaches END, after at most
\* NumDivisions + 2 node executions: the coordinator first, then division
\* supervisors, each at most once, then the aggregator or the error handler.
C1_TraceShape ==
  /\ Len(trace) <= NumDivisions + 2
  /\ \A i \in 1..Len(trace) :
       /\ (trace[i] = "chief_coordinator") <=> (i = 1)
       /\ (trace[i] \in {"response_aggregator", "error_handler"})
            => (i = Len(trace) /\ pc = "END")
  /\ NoDuplicates(trace)
  /\ (pc = "END") =>
       (trace # <<>> /\ trace[Len(trace)] \in {"response_aggregator", "error_handler"})

\* C1: the shape above holds throughout, and a run whose coordinator is
\* scheduled reaches END.
C1_Terminates ==
  /\ []C1_TraceShape
  /\ (pc = "chief_coordinator") ~> (pc = "END")

C1_Witness == pc = "END" /\ Len(trace) = 6 /\ Len(VisitedNodes) = 4

\* C2: the aggregator is entered only with no division of next_divisions
\* pending, the error handler only with an error set, and a run has ended
\* only if next_divisions is within completed_divisions or an error is set.
C2_EndsOnlyWhenDone ==
  /\ (pc = "response_aggregator")
       => (PendingDivisions(next_divisions, completed_divisions) = <<>>)
  /\ (pc = "error_handler") => Truthy(error)
  /\ (pc = "END")
       => (Range(next_divisions) \subseteq Range(completed_divisions) \/ Truthy(error))

C2_Witness ==
  /\ pc = "response_aggregator"
  /\ Len(next_divisions) = 2
  /\ Range(next_divisions) = Range(completed_divisions)

\* C3: completed_divisions never holds a division twice, whatever sequence
\* of division supervisor nodes has executed.
C3_CompletedNoDuplicates == NoDuplicates(completed_divisions)

C3_Witness ==
  /\ ~NoDuplicates(trace)
  /\ Len(completed_divisions) >= 2

\* C4: division_results has exactly one entry per completed division, keyed
\* by the division's own name, and exactly the divisions visited are
\* completed.
C4_ResultsMatchCompleted ==
  /\ Range(DictKeys(division_results)) = Range(completed_divisions)
  /\ Len(division_results) = Len(completed_divisions)
  /\ \A i \in 1..Len(division_results) :
       division_results[i].value.division = division_results[i].key
  /\ {SupervisorNode(d) : d \in Range(completed_divisions)} = Range(VisitedNodes)
  /\ Len(VisitedNodes) = Len(completed_divisions)

C4_Witness ==
  /\ Len(division_results) = 4
  /\ pc = "response_aggregator"

\* C5: the division supervisor nodes executed are the supervisors of
\* next_divisions, in that order, each once: a prefix of it during the run
\* and the whole of it when the run has ended without an error.
C5_VisitsInRoutingOrder ==
  /\ Len(VisitedNodes) <= Len(next_divisions)
  /\ \A i \in 1..Len(VisitedNodes) : VisitedNodes[i] = SupervisorNode(next_divisions[i])
  /\ (pc = "END" /\ ~Truthy(error)) => (Len(VisitedNodes) = Len(next_divisions))

C5_Witness ==
  /\ pc = "END"
  /\ next_divisions = <<"operations", "channel_management">>
  /\ VisitedNodes = <<"operations_supervisor", "channel_management_supervisor">>

\* C6: when the coordinator sets an error the run is coordinator, error
\* handler, END: no division supervisor executes, completed_divisions and
\* division_results stay empty and the final message is the error template.
C6_CoordinatorErrorShortCircuits ==
  Truthy(error) =>
    /\ pc \in {"error_handler", "END"}
    /\ completed_divisions = <<>>
    /\ division_results = <<>>
    /\ VisitedNodes = <<>>
    /\ (pc = "error_handler") => (trace = <<"chief_coordinator">>)
    /\ (pc = "END") =>
         /\ trace = <<"chief_coordinator", "error_handler">>
         /\ LastMessage.type = "ai"
         /\ LastMessage.content =
              <<"An error occurred while processing your request: ">> \o error.value

C6_Witness ==
  /\ pc = "END"
  /\ Truthy(error)
  /\ trace = <<"chief_coordinator", "error_handler">>

\* C7 as stated: a request whose query text is empty ends through the error
\* handler with the error "No messages to process".
C7_EmptyQueryIsError ==
  (pc = "END" /\ request.via = "process_request" /\ request.query = <<>>) =>
    /\ error = Some(<<"No messages to process">>)
    /\ trace = <<"chief_coordinator", "error_handler">>
    /\ LastMessage.content = ErrorMessage(error)
    /\ completed_divisions = <<>>

\* C7 amended: a request whose query text is empty still carries one user
\* message, so the coordinator sets no error and the run ends through the
\* aggregator with the no-results message and nothing completed; the error
\* "No messages to process" is set exactly for an empty message list, and
\* that run ends through the error handler with the error message.
C7_EmptyQueryIsGeneral ==
  /\ (pc = "END" /\ request.via = "process_request" /\ request.query = <<>>) =>
       /\ error = None
       /\ task_type = "general_query"
       /\ trace = <<"chief_coordinator", "response_aggregator">>
       /\ Len(messages) = 2
       /\ messages[1].type = "human" /\ messages[1].content = <<>>
       /\ LastMessage.type = "ai" /\ LastMessage.content = NoResultsText
       /\ completed_divisions = <<>>
  /\ (pc = "END") =>
       ((error = Some(<<"No messages to process">>))
          <=> (Len(messages) = 1 /\ LastMessage.type = "ai"))
  /\ (pc = "END" /\ error = Some(<<"No messages to process">>)) =>
       /\ request.via = "ainvoke"
       /\ trace = <<"chief_coordinator", "error_handler">>
       /\ LastMessage.content =
            <<"An error occurred while processing your request: ",
              "No messages to process">>
       /\ completed_divisions = <<>>

C7_Witness ==
  /\ pc = "END"
  /\ request.via = "process_request"
  /\ request.query = <<>>
  /\ current_agent = Some("response_aggregator")

C9_EmptyRoutingGoesToAggregator ==
  (trace # <<>> /\ ~Truthy(error) /\ next_divisions = <<>>) =>
    /\ pc \in {"response_aggregator", "END"}
    /\ VisitedNodes = <<>>
    /\ (pc = "response_aggregator") => (trace = <<"chief_coordinator">>)
    /\ (pc = "END") =>
         /\ trace = <<"chief_coordinator", "response_aggregator">>
         /\ LastMessage.type = "ai"
         /\ LastMessage.content = NoResultsText

C9_Witness ==
  /\ pc = "END"
  /\ next_divisions = <<>>
  /\ ~Truthy(error)
  /\ Len(messages) = 3
  /\ messages[2].content = <<"H","e","l","l","o">>

\* text.split(sep) for a one-token separator: the runs of tokens between
\* consecutive occurrences of sep
SplitOn(text, sep) ==
  LET cuts == {0} \cup {i \in 1..Len(text) : text[i] = sep} \cup {Len(text) + 1}
      Cut(k) == CHOOSE c \in cuts : Cardinality({d \in cuts : d < c}) = k
  IN  [k \in 1..(Cardinality(cuts) - 1) |->
         SubSeq(text, Cut(k - 1) + 1, Cut(k) - 1)]

\* the summary recorded for a division
SummaryOf(results, division_name) ==
  results[CHOOSE i \in 1..Len(results) : results[i].key = division_name].value.summary

\* C10: a run routed to N >= 1 divisions ends with a response of exactly N
\* sections separated by blank lines, the i-th titled after the i-th
\* division of next_divisions and holding that division's summary.
C10_OneSectionPerDivision ==
  (pc = "END" /\ ~Truthy(error) /\ Len(next_divisions) >= 1) =>
    LET sections == SplitOn(LastMessage.content, "\n\n")
    IN  /\ LastMessage.type = "ai"
        /\ Len(sections) = Len(next_divisions)
        /\ \A i \in 1..Len(next_divisions) :
             /\ next_divisions[i] \in Range(DictKeys(division_results))
             /\ sections[i] =
                  <<"**">> \o DivisionTitle(next_divisions[i]) \o <<"**: ">>
                    \o SummaryOf(division_results, next_divisions[i])
             /\ SummaryOf(division_results, next_divisions[i]) =
                  DivisionTitle(next_divisions[i])
                    \o <<" division has processed the request.">>

C10_Witness ==
  /\ pc = "END"
  /\ Len(next_divisions) = 4
  /\ Len(SplitOn(LastMessage.content, "\n\n")) = 4

\* the prefix ChiefCoordinator.aggregate_responses puts before the sections
\* when len(division_results) > 1
MultiDivisionBanner == <<"**Multi-Division Analysis Complete**", "\n\n">>

\* text.startswith(prefix)
StartsWith(text, prefix) ==
  /\ Len(text) >= Len(prefix)
  /\ SubSeq(text, 1, Len(prefix)) = prefix

\* C11 as stated: the response of the aggregator node at the end of a graph
\* run starts with the multi-division banner exactly when more than one
\* division contributed a result.
C11_BannerIffMultiDivision ==
  (pc = "END" /\ trace[Len(trace)] = "response_aggregator") =>
    (StartsWith(LastMessage.content, MultiDivisionBanner)
       <=> Len(division_results) > 1)

\* the keyword scores of a query, one per category of TASK_KEYWORDS
Scores(query) ==
  [i \in 1..Len(TASK_KEYWORDS) |->
     KeywordScore(TASK_KEYWORDS[i].keywords, str_lower(query))]

\* the sample queries made only of keywords of the c-th category
OnlyKeywordsOf(c) ==
  Range(TASK_KEYWORDS[c].keywords) \cup
  {TASK_KEYWORDS[c].keywords[i] \o <<" ">> \o TASK_KEYWORDS[c].keywords[i + 1] :
     i \in 1..(Len(TASK_KEYWORDS[c].keywords) - 1)}

\* C12: classify_task returns the category with the largest nonzero keyword
\* score, the first declared one among equals; a query made only of keywords
\* of a category is classified as that category unless another category
\* ties with it, and then the first declared of the tied ones is returned.
C12_MaxScoreFirstDeclared ==
  (call.fn = "classify_task") =>
    LET score == Scores(call.query)
        cats == 1..Len(TASK_KEYWORDS)
        top == {i \in cats : score[i] > 0 /\ \A j \in cats : score[j] <= score[i]}
    IN  /\ (top # {}) =>
             \E i \in top : /\ call.result = TASK_KEYWORDS[i].task
                            /\ \A j \in top : i <= j
        /\ \A c \in cats :
             (call.query \in OnlyKeywordsOf(c)) =>
               \/ call.result = TASK_KEYWORDS[c].task
               \/ LET tied == {j \in cats : score[j] = score[c]}
                  IN  /\ tied # {c}
                      /\ \E i \in tied : /\ call.result = TASK_KEYWORDS[i].task
                                         /\ \A j \in tied : i <= j

\* a tie between channel_status and promotion_review, one keyword each
C12_Witness ==
  /\ call.fn = "classify_task"
  /\ call.query = <<"a","n","a","l","y","z","e"," ","c","h","a","n","n","e","l"," ",
                    "p","e","r","f","o","r","m","a","n","c","e">>
  /\ call.result = "channel_status"

\* C13: classify_task returns a member of TaskType: general_query exactly
\* when no keyword of any category occurs in the lower-cased query (the
\* empty query included), otherwise a category one of whose keywords occurs.
C13_DefaultIffNoKeyword ==
  (call.fn = "classify_task") =>
    LET query_lower == str_lower(call.query)
        Occurs(c) == \E k \in 1..Len(TASK_KEYWORDS[c].keywords) :
                       str_contains(str_lower(TASK_KEYWORDS[c].keywords[k]), query_lower)
        cats == 1..Len(TASK_KEYWORDS)
    IN  /\ call.result \in TaskType
        /\ (call.result = "general_query") <=> (\A c \in cats : ~Occurs(c))
        /\ (call.result # "general_query") =>
             \E c \in cats : TASK_KEYWORDS[c].task = call.result /\ Occurs(c)
        /\ (call.query = <<>>) => (call.result = "general_query")

C13_Witness ==
  /\ call.fn = "classify_task"
  /\ call.query = <<>>
  /\ call.result = "general_query"

\* the patterns of MULTI_DIVISION_PATTERNS that match a query
MatchingPatterns(query) ==
  {p \in 1..Len(MULTI_DIVISION_PATTERNS) :
     re_search(MULTI_DIVISION_PATTERNS[p], str_lower(query))}

\* C14: when a pattern matches the lower-cased query, determine_divisions
\* returns the division list of the first matching pattern in declaration
\* order, whatever category was passed in.
C14_FirstMatchingPatternWins ==
  (call.fn = "determine_divisions") =>
    \A p \in MatchingPatterns(call.query) :
      (\A r \in MatchingPatterns(call.query) : p <= r) =>
        call.result = MULTI_DIVISION_PATTERNS[p].divisions

\* a query matching the first and the second pattern, with a category the
\* table maps to a division outside the first pattern's list
C14_Witness ==
  /\ call.fn = "determine_divisions"
  /\ call.query = <<"p","r","e","-","l","a","u","n","c","h"," ",
                    "p","r","o","m","o","t","i","o","n"," ","p","l","a","n">>
  /\ call.task = "price_monitoring"
  /\ MatchingPatterns(call.query) = {1, 2}
  /\ call.result = <<"strategic_planning", "market_intelligence",
                     "channel_management", "analytics">>

\* C15: the list determine_divisions returns has no duplicates; when no
\* pattern matches it is the one division TASK_TO_DIVISION maps the category
\* to, or empty when the category has no entry.
C15_NoDuplicatesAndTableLookup ==
  (call.fn = "determine_divisions") =>
    /\ NoDuplicates(call.result)
    /\ (MatchingPatterns(call.query) = {}) =>
         /\ \A i \in 1..Len(TASK_TO_DIVISION) :
              (TASK_TO_DIVISION[i].task = call.task) =>
                call.result = <<TASK_TO_DIVISION[i].division>>
         /\ (\A i \in 1..Len(TASK_TO_DIVISION) : TASK_TO_DIVISION[i].task # call.task)
              => call.result = <<>>

C15_Witness ==
  /\ call.fn = "determine_divisions"
  /\ call.query = <<"H","e","l","l","o">>
  /\ call.task = "multi_division"
  /\ call.result = <<>>

\* C16: determine_model_tier applies its rules in order: a category of the
\* no-model set gives tier1_free whatever the length; otherwise a category
\* of the routine set gives tier2_cheap; otherwise a query shorter than 50
\* characters whose category is not always expensive gives tier2_cheap;
\* otherwise tier3_full. promotion_planning is tier3_full at any length and
\* a query of exactly 50 characters is not short.
C16_TierRulesInOrder ==
  (call.fn = "determine_model_tier") =>
    LET free == {"inventory_monitoring", "channel_status"}
        routine == {"price_monitoring", "checklist_validation"}
        expensive == {"promotion_planning", "multi_division"}
    IN  /\ (call.task \in free) => (call.result = "tier1_free")
        /\ (call.task \in routine \ free) => (call.result = "tier2_cheap")
        /\ (call.task \notin free \cup routine \cup expensive /\ Len(call.query) < 50)
             => (call.result = "tier2_cheap")
        /\ (call.task \notin free \cup routine
              /\ (call.task \in expensive \/ Len(call.query) >= 50))
             => (call.result = "tier3_full")
        /\ (call.task = "promotion_planning") => (call.result = "tier3_full")

\* a query of exactly 50 characters with a category that is short-eligible
C16_Witness ==
  /\ call.fn = "determine_model_tier"
  /\ Len(call.query) = 50
  /\ call.task = "sentiment_analysis"
  /\ call.result = "tier3_full"

\* the categories determine_model_tier answers without a model
NoModelTasks == {"inventory_monitoring", "channel_status"}

\* C17 as stated: for a request whose category is in the no-model set the
\* tier selector returns tier1_free and no language model is invoked while
\* the request is processed by the coordinator, the division supervisors
\* and the agents they delegate to.
C17_NoModelTierInvokesNoModel ==
  (task_type \in NoModelTasks) =>
    /\ (call.fn = "analyze_request") => (call.result.model_tier = "tier1_free")
    /\ llm_invocations = 0

\* the request of test_chat_promotion_planning_query
PlanQ2Query ==
  <<"P","l","a","n"," ","Q","2"," ","s","u","n","s","c","r","e","e","n"," ",
    "p","r","o","m","o","t","i","o","n","s">>

\* the sections of the final response
ResponseSections == SplitOn(LastMessage.content, "\n\n")

\* the title a section of the response starts with
SectionTitled(section, title) ==
  StartsWith(section, <<"**">> \o title \o <<"**: ">>)

\* C18 as stated: "Plan Q2 sunscreen promotions" is classified
\* promotion_planning and routed to exactly [strategic_planning]; the final
\* response has one section, titled "Strategic Planning".
C18_PlanQ2OneDivision ==
  (request.via = "process_request" /\ request.query = PlanQ2Query /\ trace # <<>>) =>
    /\ task_type = "promotion_planning"
    /\ next_divisions = <<"strategic_planning">>
    /\ (pc = "END") =>
         /\ Len(ResponseSections) = 1
         /\ SectionTitled(ResponseSections[1],
              <<"S","t","r","a","t","e","g","i","c"," ","P","l","a","n","n","i","n","g">>)

\* C18: "Plan Q2 sunscreen promotions" is classified promotion_planning; it
\* matches the first multi-division pattern and is routed to
\* [strategic_planning, market_intelligence, channel_management, analytics];
\* the final response has four sections, titled after these divisions in
\* this order, the first "Strategic Planning".
C18_PlanQ2FourDivisions ==
  (request.via = "process_request" /\ request.query = PlanQ2Query /\ trace # <<>>) =>
    /\ task_type = "promotion_planning"
    /\ next_divisions = <<"strategic_planning", "market_intelligence",
                          "channel_management", "analytics">>
    /\ (pc = "END") =>
         LET titles ==
               << <<"S","t","r","a","t","e","g","i","c"," ","P","l","a","n","n","i","n","g">>,
                  <<"M","a","r","k","e","t"," ","I","n","t","e","l","l","i","g","e","n","c","e">>,
                  <<"C","h","a","n","n","e","l"," ","M","a","n","a","g","e","m","e","n","t">>,
                  <<"A","n","a","l","y","t","i","c","s">> >>
         IN  /\ Len(ResponseSections) = 4
             /\ \A i \in 1..4 : SectionTitled(ResponseSections[i], titles[i])
             /\ completed_divisions = next_divisions

C18_Witness ==
  /\ pc = "END"
  /\ request.via = "process_request"
  /\ request.query = PlanQ2Query
  /\ Len(ResponseSections) = 4

\* the query of a run: the content of the last user message
RunQuery ==
  LET humans == {i \in 1..Len(messages) : messages[i].type = "human"}
  IN  messages[CHOOSE i \in humans : \A j \in humans : j <= i].content

\* C19 as stated: whenever a query is classified promotion_planning, the
\* divisions it is routed to, and the completed divisions of the final
\* state, include strategic_planning.
C19_PlanningIncludesStrategic ==
  (trace # <<>> /\ ~Truthy(error) /\ task_type = "promotion_planning") =>
    /\ "strategic_planning" \in Range(next_divisions)
    /\ (pc = "END") => ("strategic_planning" \in Range(completed_divisions))

\* C19: a query classified promotion_planning is routed to strategic_planning
\* (and strategic_planning is among the completed divisions of the final
\* state) when no multi-division pattern matches it or the first pattern is
\* among the matching ones; when its first matching pattern is the second or
\* the third, it is routed to that pattern's list, which has no
\* strategic_planning.
C19_PlanningIncludesStrategicUnlessOverridden ==
  (trace # <<>> /\ ~Truthy(error) /\ task_type = "promotion_planning") =>
    LET matching == MatchingPatterns(RunQuery)
    IN  /\ (matching = {} \/ 1 \in matching) =>
             /\ "strategic_planning" \in Range(next_divisions)
             /\ (pc = "END") => ("strategic_planning" \in Range(completed_divisions))
        /\ (matching # {} /\ 1 \notin matching) =>
             /\ \E p \in matching :
                  /\ \A r \in matching : p <= r
                  /\ next_divisions = MULTI_DIVISION_PATTERNS[p].divisions
             /\ "strategic_planning" \notin Range(next_divisions)
             /\ (pc = "END") => ("strategic_planning" \notin Range(completed_divisions))

\* a finished run of a planning query the second pattern takes over
C19_Witness ==
  /\ pc = "END"
  /\ task_type = "promotion_planning"
  /\ RunQuery = <<"p","r","e","-","l","a","u","n","c","h"," ","p","l","a","n">>
  /\ completed_divisions = <<"operations", "channel_management">>

\* the multi-division example of the specification
OliveyoungPricingQuery ==
  <<"C","h","e","c","k"," ","O","l","i","v","e","y","o","u","n","g"," ",
    "r","a","n","k","i","n","g","s"," ","a","n","d"," ",
    "c","o","m","p","e","t","i","t","o","r"," ","p","r","i","c","i","n","g">>

\* C20 as stated: "Check Oliveyoung rankings and competitor pricing" matches
\* a multi-division pattern and is routed to several divisions beginning
\* channel_management, market_intelligence; the sections of the response
\* appear in that order.
C20_OliveyoungPricingMultiDivision ==
  (request.via = "process_request" /\ request.query = OliveyoungPricingQuery
     /\ trace # <<>>) =>
    /\ MatchingPatterns(request.query) # {}
    /\ Len(next_divisions) >= 2
    /\ SubSeq(next_divisions, 1, 2) = <<"channel_management", "market_intelligence">>
    /\ (pc = "END") =>
         /\ Len(ResponseSections) = Len(next_divisions)
         /\ \A i \in 1..Len(next_divisions) :
              SectionTitled(ResponseSections[i], DivisionTitle(next_divisions[i]))

\* C20: "Check Oliveyoung rankings and competitor pricing" matches no
\* multi-division pattern; it is classified competitor_analysis (one keyword,
\* tied with channel_status and declared first) and routed to exactly
\* [market_intelligence]; the response has the single section
\* "Market Intelligence".
C20_OliveyoungPricingOneDivision ==
  (request.via = "process_request" /\ request.query = OliveyoungPricingQuery
     /\ trace # <<>>) =>
    /\ MatchingPatterns(request.query) = {}
    /\ task_type = "competitor_analysis"
    /\ next_divisions = <<"market_intelligence">>
    /\ (pc = "END") =>
         /\ Len(ResponseSections) = 1
         /\ SectionTitled(ResponseSections[1],
              <<"M","a","r","k","e","t"," ","I","n","t","e","l","l","i","g","e","n","c","e">>)
         /\ completed_divisions = <<"market_intelligence">>

C20_Witness ==
  /\ pc = "END"
  /\ request.via = "process_request"
  /\ request.query = OliveyoungPricingQuery
  /\ current_agent = Some("response_aggregator")
  /\ Len(ResponseSections) = 1

\* the Korean inventory request ("check the stock")
KoreanInventoryQuery == <<"uC7AC","uACE0"," ","uD655","uC778","uD574","uC918">>

\* C21: the Korean query is classified inventory_monitoring through the
\* Korean keyword of that category, routed to exactly [operations], and the
\* operations supervisor's route_to_agent picks inventory_checker for it.
C21_KoreanInventoryToInventoryChecker ==
  (request.via = "route_request" /\ messages # <<>>
     /\ RunQuery = KoreanInventoryQuery) =>
    /\ task_type = "inventory_monitoring"
    /\ \E c \in 1..Len(TASK_KEYWORDS) :
         /\ TASK_KEYWORDS[c].task = "inventory_monitoring"
         /\ <<"uC7AC","uACE0">> \in Range(TASK_KEYWORDS[c].keywords)
    /\ next_divisions = <<"operations">>
    /\ OperationsRouteToAgent(messages) = "inventory_checker"
    /\ (call.fn = "OperationsSupervisor.process") =>
         (call.routed_to = "inventory_checker")

C21_Witness ==
  /\ pc = "processed"
  /\ RunQuery = KoreanInventoryQuery
  /\ task_type = "inventory_monitoring"
  /\ call.fn = "OperationsSupervisor.process"
  /\ call.routed_to = "inventory_checker"

\* C22 as stated: one call of a division supervisor's process delegates to
\* exactly one handler, a registered agent or the supervisor's own direct
\* answer, and route_to_agent is evaluated once per call.
C22_OneHandlerOneRouting ==
  (call.fn = "supervisor.process") =>
    /\ Len(call.answered_by) = 1
    /\ call.answered_by[1] \in call.registered \cup {call.supervisor}
    /\ call.route_evaluations = 1

\* C22: one call of a division supervisor's process delegates to exactly one
\* handler: the registered agent route_to_agent names, after one evaluation
\* of route_to_agent, or the supervisor's own direct answer when that name is
\* not registered, and then route_to_agent has been evaluated twice (by the
\* supervisor's process and again by BaseDivisionSupervisor.process).
C22_OneHandlerRoutingTwiceOnFallback ==
  (call.fn = "supervisor.process") =>
    /\ Len(call.answered_by) = 1
    /\ llm_invocations = 1
    /\ (call.routed_to \in call.registered) =>
         /\ call.answered_by = <<call.routed_to>>
         /\ call.route_evaluations = 1
    /\ (call.routed_to \notin call.registered) =>
         /\ call.answered_by = <<call.supervisor>>
         /\ call.supervisor \notin call.registered
         /\ call.route_evaluations = 2

\* the analytics supervisor without its default agent, on a query no
\* keyword group matches
C22_Witness ==
  /\ call.fn = "supervisor.process"
  /\ call.division = "analytics"
  /\ messages # <<>>
  /\ call.routed_to = "promotion_reviewer"
  /\ call.registered = FactoryAgents("analytics") \ {"promotion_reviewer"}
  /\ call.answered_by = <<"analytics_supervisor">>
  /\ call.route_evaluations = 2

\* C23: when the name route_to_agent returns is not in the supervisor's
\* agent mapping, process does not raise: the supervisor answers itself with
\* one model call under its own system prompt and a result is returned.
C23_UnregisteredAgentFallsBack ==
  (call.fn = "supervisor.process" /\ call.routed_to \notin call.registered) =>
    /\ ~call.raised
    /\ call.answered_by = <<call.supervisor>>
    /\ call.supervisor = SupervisorName(call.division)
    /\ llm_invocations = 1
    /\ pc = "processed"

\* the strategic planning supervisor constructed without agents
C23_Witness ==
  /\ call.fn = "supervisor.process"
  /\ call.division = "strategic_planning"
  /\ call.registered = {}
  /\ messages # <<>>
  /\ call.routed_to = "budget_allocator"
  /\ call.answered_by = <<"strategic_planning_supervisor">>
  /\ ~call.raised

\* C28: for each of the five supervisors as its factory builds it,
\* route_to_agent returns a registered agent for every state with at least
\* one message, the agent of the first matching keyword group or the
\* division's default agent when none matches; for a state with no messages
\* it returns the supervisor's own name, which is not registered, and
\* process then takes the direct-answer fallback.
C28_RouteToRegisteredAgent ==
  /\ (call.fn = "route_to_agent") =>
       LET d == call.division
           hits == IF call.msgs = <<>> THEN {}
                   ELSE MatchingGroups(d, call.msgs[Len(call.msgs)].content)
       IN  /\ (call.msgs # <<>>) =>
                /\ call.result \in FactoryAgents(d)
                /\ (hits = {}) => (call.result = DefaultAgent(d))
                /\ \A i \in hits :
                     (\A j \in hits : i <= j) =>
                       call.result = AgentKeywords(d)[i].agent
           /\ (call.msgs = <<>>) =>
                /\ call.result = SupervisorName(d)
                /\ call.result \notin FactoryAgents(d)
  /\ (call.fn = "supervisor.process"
        /\ call.registered = FactoryAgents(call.division)) =>
       /\ (messages # <<>>) =>
            /\ call.routed_to \in call.registered
            /\ call.answered_by = <<call.routed_to>>
       /\ (messages = <<>>) =>
            /\ call.routed_to = call.supervisor
            /\ call.answered_by = <<call.supervisor>>

\* the Korean attribution keyword contains the Korean review keyword: the
\* first and the seventh keyword group of analytics match it
C28_Witness ==
  /\ call.fn = "route_to_agent"
  /\ call.division = "analytics"
  /\ call.msgs # <<>>
  /\ call.msgs[1].content = <<"uC5B4","uD2B8","uB9AC","uBDF0","uC158">>
  /\ MatchingGroups("analytics", call.msgs[1].content) = {1, 7}
  /\ call.result = "review_sentiment_analyst"

\* C24 as stated: at the error terminal the assistant message is of a fixed
\* format and does not contain the raw text of the stored error.
C24_ErrorMessageOmitsStoredError ==
  (pc = "END" /\ current_agent = Some("error_handler")) =>
    ~str_contains(ErrorText(error), LastMessage.content)

\* the positions of the assistant messages of the history
AssistantPositions == {i \in 1..Len(messages) : messages[i].type = "ai"}

\* the history after a step: the history before it, then `added` messages
AppendsToHistory(added) ==
  /\ Len(messages') = Len(messages) + added
  /\ SubSeq(messages', 1, Len(messages)) = messages

\* every node of the graph keeps the earlier messages; the aggregator and
\* the error handler add one assistant message, the other nodes none
HistoryAppendOnly ==
  /\ (pc \in {"response_aggregator", "error_handler"}) =>
       /\ AppendsToHistory(1)
       /\ messages'[Len(messages')].type = "ai"
  /\ (pc = "chief_coordinator" \/ \E d \in DivisionSet : pc = SupervisorNode(d)) =>
       AppendsToHistory(0)

\* C25 as stated: the history is append-only through a run, the aggregator
\* and the error handler each append exactly one assistant message, and
\* every completed run ends with the user's message followed by exactly one
\* assistant message.
C25_AppendOnlyEndsUserThenAssistant ==
  [][/\ HistoryAppendOnly
     /\ (pc' = "END") =>
          /\ Len(messages') >= 2
          /\ messages'[Len(messages') - 1].type = "human"
          /\ messages'[Len(messages')].type = "ai"
          /\ Cardinality({i \in 1..Len(messages') : messages'[i].type = "ai"}) = 1]_vars

\* C25: the history is append-only through a run, the aggregator and the
\* error handler each append exactly one assistant message; a completed run
\* ends with exactly one assistant message, the last of the history, after
\* the messages the run was started with: the user's message when there was
\* one, nothing when the run was started with no message (the error run).
C25_AppendOnlyEndsWithOneAssistant ==
  [][/\ HistoryAppendOnly
     /\ (pc' = "END") =>
          /\ Len(messages') >= 1
          /\ {i \in 1..Len(messages') : messages'[i].type = "ai"} = {Len(messages')}
          /\ (Truthy(error') <=> Len(messages') = 1)
          /\ (request'.via = "process_request") =>
               /\ Len(messages') = 2
               /\ messages'[1].type = "human"
               /\ messages'[1].content = request'.query]_vars

\* a finished run on a history of two user messages
C25_Witness ==
  /\ pc = "END"
  /\ Len(messages) = 3
  /\ AssistantPositions = {3}
  /\ current_agent = Some("response_aggregator")

\* C26: the coordinator runs once per run, and every division supervisor
\* node, the aggregator and the error handler leave task_type,
\* next_divisions, use_mini_model, cache_key and retry_count unchanged.
C26_RoutingFieldsFrozenAfterCoordinator ==
  [][/\ (pc \in {"response_aggregator", "error_handler"}
           \/ \E d \in DivisionSet : pc = SupervisorNode(d)) =>
          UNCHANGED <<task_type, next_divisions, use_mini_model, cache_key,
                      retry_count>>
     /\ Cardinality({i \in 1..Len(trace') : trace'[i] = "chief_coordinator"}) <= 1]_vars

\* a finished run through two division nodes and the aggregator
C26_Witness ==
  /\ pc = "END"
  /\ Len(trace) = 4
  /\ task_type # "general_query"
  /\ Len(next_divisions) = 2
  /\ cache_key # None

\* C27: a division supervisor step writes only its own key of
\* division_results, the results of the other divisions stay as they were
\* and where they were, and completed_divisions after the step is the list
\* before it with at most this division appended.
C27_DivisionWritesOwnKeyOnly ==
  [][\A d \in DivisionSet :
       (trace' = Append(trace, SupervisorNode(d))) =>
         /\ Len(division_results') \in
              {Len(division_results), Len(division_results) + 1}
         /\ \A i \in 1..Len(division_results) :
              /\ division_results'[i].key = division_results[i].key
              /\ (division_results[i].key # d) =>
                   division_results'[i] = division_results[i]
         /\ (Len(division_results') = Len(division_results) + 1) =>
              division_results'[Len(division_results')].key = d
         /\ \E i \in 1..Len(division_results') : division_results'[i].key = d
         /\ completed_divisions' \in
              {completed_divisions, Append(completed_divisions, d)}]_vars

\* a division node has run again after another division's result was stored
C27_Witness ==
  /\ Len(division_results) = 2
  /\ Len(completed_divisions) = 2
  /\ Len(trace) = 3
  /\ trace[3] = SupervisorNode(completed_divisions[1])

\* C29: the coordinator node of the graph and ChiefCoordinator.route_request
\* are equivalent routing steps: on the state the node receives,
\* route_request gives the same error outcome and the same task_type,
\* next_divisions, use_mini_model and cache_key as the node; on the
\* no-messages error both leave every field other than error unchanged.
C29_CoordinatorNodeMatchesRouteRequest ==
  [][(pc = "chief_coordinator") =>
       LET before == GraphState
           after == route_request_return(before, hash_seed)
       IN  /\ error' = after.error
           /\ task_type' = after.task_type
           /\ next_divisions' = after.next_divisions
           /\ use_mini_model' = after.use_mini_model
           /\ cache_key' = after.cache_key
           /\ Truthy(error') =>
                /\ after = [before EXCEPT !.error = after.error]
                /\ GraphState' = [before EXCEPT !.error = error']]_vars

\* the coordinator node has routed the last of two user messages to several
\* divisions
C29_Witness ==
  /\ trace = <<"chief_coordinator">>
  /\ Len(messages) = 2
  /\ Len(next_divisions) >= 2
  /\ cache_key # None

\* C30 as stated: broadcast sends the message exactly once to every
\* connection registered for the whole broadcast and completes without
\* error, also when clients connect or disconnect while it is suspended
\* awaiting a send; and no client id ever maps to an empty connection list.
C30_BroadcastReachesEveryConnection ==
  /\ broadcast_task.phase # "error"
  /\ \A w \in 1..accepted : TimesSent(w) <= 1
  /\ (broadcast_task.phase = "done") =>
       \A w \in broadcast_task.at_start \cap Registered(active_connections) :
         TimesSent(w) = 1
  /\ \A i \in LiveEntries(active_connections) :
       active_connections[i].connections # <<>>

====
